---- MODULE Spec2Model ----
(***************************************************************************)
(* A model of the rules engine of the card game "56": the bidding round    *)
(* (bidding.py), the teams (player.py), the trick and the trick manager    *)
(* (trick.py) and the round scorer (game.py, interactive_game.py).         *)
(*                                                                         *)
(* Seats are the indexes 0..3 of the players list (North, East, South,     *)
(* West); teams are the positions 1..2 of the teams list. Python's None is *)
(* NoBid / NoTeam / NoSuit / NoPlayer.                                     *)
(***************************************************************************)
EXTENDS Integers, Sequences, FiniteSets, TLC

VARIABLES
    \* BiddingRound (bidding.py:37-46)
    bids, current_bid, winning_bid, winning_team, is_complete, consecutive_passes,
    \* Team.bid and Team.is_bidding_team, per team (player.py:97-98)
    team_bid, is_bidding_team,
    \* the caller's loop variable of conduct_bidding and its position
    current_player, pc,
    \* Player.hand and Player.tricks_won, per seat (player.py:24-25)
    hand, tricks_won,
    \* TrickManager (trick.py:118-124)
    trump_suit, tricks, current_trick, current_player_index,
    \* the trick points handed to the scorer, and GameRound.round_complete,
    \* GameRound.winning_team and the scores returned (game.py:36-37, 115-150)
    team_points, round_complete, round_winning_team, scores,
    \* GameRound.round_number (game.py:28)
    round_number,
    \* how many times start_new_trick has been called
    starts,
    \* Deck.cards of the round's deck (card.py:64), and how many times it
    \* has been shuffled
    deck_cards, shuffles,
    \* InteractiveGameRound._bidding_history (interactive_game.py:150)
    bidding_history,
    \* Game56.game_scores, current_dealer_index, game_complete and
    \* winning_team (game.py:188-192)
    game_scores, current_dealer_index, game_complete, game_winning_team,
    \* the last engine call and what it returned
    call

bidVars == <<bids, current_bid, winning_bid, winning_team, is_complete,
             consecutive_passes>>
teamVars == <<team_bid, is_bidding_team>>
driverVars == <<current_player, pc>>
handVars == <<hand, tricks_won>>
trickVars == <<trump_suit, tricks, current_trick, current_player_index>>
scoreVars == <<team_points, round_complete, round_winning_team, scores, round_number>>
deckVars == <<deck_cards, shuffles>>
gameVars == <<game_scores, current_dealer_index, game_complete, game_winning_team>>
vars == <<bidVars, teamVars, driverVars, handVars, trickVars, scoreVars, starts, deckVars,
          bidding_history, gameVars, call>>

----------------------------------------------------------------------------
\* Bounds of the model.

\* longest bids log explored when any seat may call make_bid
MaxBids == 5
\* longest bids log explored when the seats are called in rotation
MaxTurns == 8
\* most calls of start_new_trick explored in one round
MaxStarts == 2
\* most rounds explored in one game
MaxRounds == 2
\* most shuffles of one deck explored
MaxShuffles == 2
\* most cards dealt one by one off a full deck
MaxSingles == 2
\* the amounts a caller may try: below the floor, the floor, a raise,
\* the ceiling, above the ceiling
BidAmounts == {27, 28, 30, 56, 57}

----------------------------------------------------------------------------
\* Players and teams (player.py).

Players == 0 .. 3
NoPlayer == -1

\* GameSetup.create_standard_game: team 1 is North and South, team 2 is East and West
teams == << <<0, 2>>, <<1, 3>> >>
Teams == DOMAIN teams
NoTeam == 0

InTeam(player, team) == \E i \in DOMAIN teams[team] : teams[team][i] = player

\* BidAction
BID == "bid"
PASS == "pass"

\* Bid.__init__
Bid(player, action, amount) == [player |-> player, action |-> action, amount |-> amount]
NoBid == [player |-> NoPlayer, action |-> "none", amount |-> 0]

NoCall == [op |-> "none"]

Max(a, b) == IF a >= b THEN a ELSE b
Min(a, b) == IF a <= b THEN a ELSE b

----------------------------------------------------------------------------
\* BiddingRound (bidding.py).

get_minimum_bid == Max(28, current_bid + 1)

get_maximum_bid == 56

is_valid_bid_nonstrict(amount) ==
    Max(28, current_bid) <= amount /\ amount <= get_maximum_bid

is_valid_bid(amount) ==
    get_minimum_bid <= amount /\ amount <= get_maximum_bid

\* the first team of the list that holds the player
get_player_team(player) ==
    IF InTeam(player, 1) THEN 1
    ELSE IF InTeam(player, 2) THEN 2
    ELSE NoTeam

can_player_bid_any_team(player, amount) ==
    IF is_complete THEN FALSE
    ELSE is_valid_bid(amount)

can_player_bid(player, amount) ==
    IF is_complete THEN FALSE
    ELSE IF ~is_valid_bid(amount) THEN FALSE
    ELSE IF winning_team = get_player_team(player) THEN FALSE
    ELSE TRUE

\* a make_bid that takes a pass also when the round is complete
make_bid_result_pass_always(player, action, amount) ==
    IF action # BID THEN TRUE
    ELSE IF is_complete THEN FALSE
    ELSE can_player_bid(player, amount)

\* what make_bid answers: True when it accepts the action
make_bid_result(player, action, amount) ==
    IF is_complete THEN FALSE
    ELSE IF action = BID THEN can_player_bid(player, amount)
    ELSE TRUE

\* the record of a make_bid call: the action and the answer, and the seat
\* and the amount of an action that was accepted
MakeBidCall(player, action, amount, ok) ==
    IF ok
    THEN [op |-> "make_bid", action |-> action, ok |-> ok, player |-> player,
          amount |-> amount]
    ELSE [op |-> "make_bid", action |-> action, ok |-> ok]

\* a make_bid that forgets to reset consecutive_passes on a bid
make_bid_no_reset(player, action, amount) ==
    IF ~make_bid_result(player, action, amount)
    THEN /\ call' = MakeBidCall(player, action, amount, FALSE)
         /\ UNCHANGED bidVars
    ELSE IF action = BID
    THEN /\ bids' = Append(bids, Bid(player, action, amount))
         /\ current_bid' = amount
         /\ winning_bid' = Bid(player, action, amount)
         /\ winning_team' = get_player_team(player)
         /\ UNCHANGED <<is_complete, consecutive_passes>>
         /\ call' = MakeBidCall(player, action, amount, TRUE)
    ELSE /\ bids' = Append(bids, Bid(player, action, 0))
         /\ consecutive_passes' = consecutive_passes + 1
         /\ is_complete' = IF consecutive_passes + 1 >= 3 /\ winning_bid # NoBid
                           THEN TRUE ELSE is_complete
         /\ UNCHANGED <<current_bid, winning_bid, winning_team>>
         /\ call' = MakeBidCall(player, action, 0, TRUE)

\* a make_bid that leaves current_bid alone on a bid
make_bid_keep_current(player, action, amount) ==
    IF ~make_bid_result(player, action, amount)
    THEN /\ call' = MakeBidCall(player, action, amount, FALSE)
         /\ UNCHANGED bidVars
    ELSE IF action = BID
    THEN /\ bids' = Append(bids, Bid(player, action, amount))
         /\ winning_bid' = Bid(player, action, amount)
         /\ winning_team' = get_player_team(player)
         /\ consecutive_passes' = 0
         /\ UNCHANGED <<is_complete, current_bid>>
         /\ call' = MakeBidCall(player, action, amount, TRUE)
    ELSE /\ bids' = Append(bids, Bid(player, action, 0))
         /\ consecutive_passes' = consecutive_passes + 1
         /\ is_complete' = IF consecutive_passes + 1 >= 3 /\ winning_bid # NoBid
                           THEN TRUE ELSE is_complete
         /\ UNCHANGED <<current_bid, winning_bid, winning_team>>
         /\ call' = MakeBidCall(player, action, 0, TRUE)

\* a make_bid that logs a bid before it validates it
make_bid_log_first(player, action, amount) ==
    IF ~make_bid_result(player, action, amount)
    THEN /\ call' = MakeBidCall(player, action, amount, FALSE)
         /\ bids' = IF is_complete THEN bids ELSE Append(bids, Bid(player, action, amount))
         /\ UNCHANGED <<current_bid, winning_bid, winning_team, is_complete,
                        consecutive_passes>>
    ELSE IF action = BID
    THEN /\ bids' = Append(bids, Bid(player, action, amount))
         /\ current_bid' = amount
         /\ winning_bid' = Bid(player, action, amount)
         /\ winning_team' = get_player_team(player)
         /\ consecutive_passes' = 0
         /\ UNCHANGED is_complete
         /\ call' = MakeBidCall(player, action, amount, TRUE)
    ELSE /\ bids' = Append(bids, Bid(player, action, 0))
         /\ consecutive_passes' = consecutive_passes + 1
         /\ is_complete' = IF consecutive_passes + 1 >= 3 /\ winning_bid # NoBid
                           THEN TRUE ELSE is_complete
         /\ UNCHANGED <<current_bid, winning_bid, winning_team>>
         /\ call' = MakeBidCall(player, action, 0, TRUE)

\* BiddingRound.make_bid: a pass carries the default amount 0
make_bid(player, action, amount) ==
    IF ~make_bid_result(player, action, amount)
    THEN /\ call' = MakeBidCall(player, action, amount, FALSE)
         /\ UNCHANGED bidVars
    ELSE IF action = BID
    THEN /\ bids' = Append(bids, Bid(player, action, amount))
         /\ current_bid' = amount
         /\ winning_bid' = Bid(player, action, amount)
         /\ winning_team' = get_player_team(player)
         /\ consecutive_passes' = 0
         /\ UNCHANGED is_complete
         /\ call' = MakeBidCall(player, action, amount, TRUE)
    ELSE /\ bids' = Append(bids, Bid(player, action, 0))
         /\ consecutive_passes' = consecutive_passes + 1
         /\ is_complete' = IF consecutive_passes + 1 >= 3 /\ winning_bid # NoBid
                           THEN TRUE ELSE is_complete
         /\ UNCHANGED <<current_bid, winning_bid, winning_team>>
         /\ call' = MakeBidCall(player, action, 0, TRUE)

\* a get_next_player that does not wrap after the last seat
get_next_player_no_wrap(current) == current + 1

\* BiddingRound.get_next_player
get_next_player(current) == (current + 1) % Cardinality(Players)

\* a finalize_bidding that does not clear the other team
finalize_bidding_no_clear ==
    IF winning_bid # NoBid /\ winning_team # NoTeam
    THEN /\ team_bid' = [team_bid EXCEPT ![winning_team] = winning_bid.amount]
         /\ is_bidding_team' = [is_bidding_team EXCEPT ![winning_team] = TRUE]
    ELSE UNCHANGED teamVars

\* Team.set_bid / Team.clear_bid applied by finalize_bidding to every team
finalize_bidding ==
    IF winning_bid # NoBid /\ winning_team # NoTeam
    THEN /\ team_bid' = [t \in Teams |->
                            IF t = winning_team THEN winning_bid.amount ELSE 0]
         /\ is_bidding_team' = [t \in Teams |-> t = winning_team]
    ELSE UNCHANGED teamVars

----------------------------------------------------------------------------
\* Cards and the deck (card.py).

\* Suit and Rank, in the order the enums list their members
SuitOrder == <<"Hearts", "Diamonds", "Clubs", "Spades">>
RankOrder == <<"JACK", "NINE", "ACE", "TEN", "KING", "QUEEN">>
Suits == {SuitOrder[i] : i \in DOMAIN SuitOrder}
Ranks == {RankOrder[i] : i \in DOMAIN RankOrder}
NoSuit == "None"

\* Rank.points
points(rank) ==
    CASE rank = "JACK" -> 3
      [] rank = "NINE" -> 2
      [] rank = "ACE" -> 1
      [] rank = "TEN" -> 1
      [] rank = "KING" -> 0
      [] rank = "QUEEN" -> 0

\* a trick order that follows the point values
rank_value_by_points(rank) == points(rank)

\* Rank.rank_value
rank_value(rank) ==
    CASE rank = "JACK" -> 6
      [] rank = "NINE" -> 5
      [] rank = "ACE" -> 4
      [] rank = "TEN" -> 3
      [] rank = "KING" -> 2
      [] rank = "QUEEN" -> 1

\* Card.__init__; two cards are equal when suit and rank are (Card.__eq__)
Card(suit, rank) == [suit |-> suit, rank |-> rank]

\* one 24-card deck: for suit in Suit: for rank in Rank
OneDeck(suits, ranks) ==
    [i \in 1 .. Len(suits) * Len(ranks) |->
        Card(suits[((i - 1) \div Len(ranks)) + 1], ranks[((i - 1) % Len(ranks)) + 1])]

\* a _create_deck that makes one deck only
create_deck_once(suits, ranks) == OneDeck(suits, ranks)

\* Deck._create_deck: two identical decks, one after the other
create_deck(suits, ranks) == OneDeck(suits, ranks) \o OneDeck(suits, ranks)

RECURSIVE calculate_hand_points(_)
calculate_hand_points(cards) ==
    IF cards = << >> THEN 0
    ELSE points(Head(cards).rank) + calculate_hand_points(Tail(cards))

\* the deck of the game
FullDeck == create_deck(SuitOrder, RankOrder)

----------------------------------------------------------------------------
\* The deck that is dealt and played in this model: the double deck of two
\* ranks of two suits, 8 cards with 20 points, so that every seat holds 2
\* cards and a round has 2 tricks (12 of each for FullDeck).

DeckSuits == <<"Hearts", "Clubs">>
DeckRanks == <<"JACK", "NINE">>
PlayDeck == create_deck(DeckSuits, DeckRanks)
HandSize == Len(PlayDeck) \div Cardinality(Players)
CardsOf(deck) == {deck[i] : i \in DOMAIN deck}
\* the trumps this model draws from: the suits of PlayDeck and a suit no
\* card of it has
TrumpChoices == {"Hearts", "Clubs", "Spades"}

\* Deck.shuffle: the orders this model draws from, which are the deck as
\* created, its cut after the first card and its riffle (the two halves
\* interleaved)
Cut(deck, k) ==
    IF Len(deck) <= k THEN deck
    ELSE SubSeq(deck, k + 1, Len(deck)) \o SubSeq(deck, 1, k)
Riffle(deck) ==
    [i \in 1 .. Len(deck) |->
        IF i % 2 = 1 THEN deck[(i + 1) \div 2]
        ELSE deck[((Len(deck) + 1) \div 2) + (i \div 2)]]
shuffle(deck) == {deck, Cut(deck, 1), Riffle(deck)}

\* the first n elements of a list
FirstOf(seq, n) == [i \in 1 .. n |-> seq[i]]

\* Deck.deal_card: the card at the end of the list is popped
deal_card(cards) == cards[Len(cards)]

\* Deck.deal_hand: num_cards cards popped one by one, fewer when the deck
\* runs out
deal_hand(cards, num_cards) ==
    [i \in 1 .. Min(num_cards, Len(cards)) |-> cards[Len(cards) - i + 1]]

\* a deal_cards that gives every seat the same cards off the end of the deck
deal_cards_peek(deck, num_cards) ==
    [p \in Players |-> deal_hand(deck, num_cards)]

\* GameRound.deal_cards with Deck.deal_hand and Deck.deal_card: every seat in
\* turn pops num_cards cards off the end of the deck
deal_cards(deck, num_cards) ==
    [p \in Players |->
        deal_hand(FirstOf(deck, Max(0, Len(deck) - p * num_cards)), num_cards)]

\* the deck that deal_cards leaves
deck_after_deal(deck, num_cards) ==
    FirstOf(deck, Max(0, Len(deck) - Cardinality(Players) * num_cards))

----------------------------------------------------------------------------
\* Player (player.py).

InSeq(x, seq) == \E i \in DOMAIN seq : seq[i] = x

\* a remove that takes every equal element
RemoveAll(seq, x) ==
    LET Other(y) == y # x
    IN  SelectSeq(seq, Other)

\* list.remove: the first equal element goes
RemoveFirst(seq, x) ==
    LET i == CHOOSE j \in DOMAIN seq : seq[j] = x /\ \A k \in 1 .. j - 1 : seq[k] # x
    IN  SubSeq(seq, 1, i - 1) \o SubSeq(seq, i + 1, Len(seq))

\* a get_valid_cards that does not ask to follow suit
get_valid_cards_any(cards, led_suit, trump) == cards

\* a get_valid_cards that gives a seat without the led suit nothing to play
get_valid_cards_follow_only(cards, led_suit, trump) ==
    IF led_suit = NoSuit THEN cards
    ELSE LET SameSuit(card) == card.suit = led_suit
         IN  SelectSeq(cards, SameSuit)

\* Player.get_valid_cards
get_valid_cards(cards, led_suit, trump) ==
    IF led_suit = NoSuit THEN cards
    ELSE LET SameSuit(card) == card.suit = led_suit
             same_suit_cards == SelectSeq(cards, SameSuit)
         IN  IF same_suit_cards # << >> THEN same_suit_cards ELSE cards

RECURSIVE SumPoints(_)
SumPoints(won) ==
    IF won = << >> THEN 0
    ELSE calculate_hand_points(Head(won)) + SumPoints(Tail(won))

\* Player.get_total_points
get_total_points(player) == SumPoints(tricks_won[player])

\* Team.get_total_points
team_total_points(team) ==
    get_total_points(teams[team][1]) + get_total_points(teams[team][2])

\* TrickManager.get_team_points
get_team_points == [t \in Teams |-> team_total_points(t)]

----------------------------------------------------------------------------
\* Trick (trick.py).

TrickCard(card, player) == [card |-> card, player |-> player]

\* Trick.__init__
Trick(trick_number, leading_player) ==
    [trick_number |-> trick_number, leading_player |-> leading_player,
     cards_played |-> << >>, winner |-> NoPlayer, trump_suit |-> NoSuit,
     led_suit |-> NoSuit]
NoTrick == Trick(0, NoPlayer)

\* a highest card search that keeps the last of the equal highest
get_highest_card_last(trick_cards) ==
    LET i == CHOOSE j \in DOMAIN trick_cards :
                /\ \A k \in DOMAIN trick_cards :
                      rank_value(trick_cards[k].card.rank) <= rank_value(trick_cards[j].card.rank)
                /\ \A k \in j + 1 .. Len(trick_cards) :
                      rank_value(trick_cards[k].card.rank) < rank_value(trick_cards[j].card.rank)
    IN  trick_cards[i]

\* Trick._get_highest_card: max() returns the first of the equal highest
get_highest_card(trick_cards) ==
    LET i == CHOOSE j \in DOMAIN trick_cards :
                /\ \A k \in DOMAIN trick_cards :
                      rank_value(trick_cards[k].card.rank) <= rank_value(trick_cards[j].card.rank)
                /\ \A k \in 1 .. j - 1 :
                      rank_value(trick_cards[k].card.rank) < rank_value(trick_cards[j].card.rank)
    IN  trick_cards[i]

\* a winner search that lets the led suit beat the trump
determine_winner_led_first(trick) ==
    LET IsLed(tc) == tc.card.suit = trick.led_suit
        IsTrump(tc) == trick.trump_suit # NoSuit /\ tc.card.suit = trick.trump_suit
        led_suit_cards == SelectSeq(trick.cards_played, IsLed)
        trump_cards == SelectSeq(trick.cards_played, IsTrump)
    IN  IF led_suit_cards # << >> THEN get_highest_card(led_suit_cards).player
        ELSE IF trump_cards # << >> THEN get_highest_card(trump_cards).player
        ELSE NoPlayer

\* Trick._determine_winner; NoPlayer stands for the ValueError of line 84
determine_winner(trick) ==
    LET IsTrump(tc) == trick.trump_suit # NoSuit /\ tc.card.suit = trick.trump_suit
        IsLed(tc) == ~IsTrump(tc) /\ tc.card.suit = trick.led_suit
        trump_cards == SelectSeq(trick.cards_played, IsTrump)
        led_suit_cards == SelectSeq(trick.cards_played, IsLed)
    IN  IF trump_cards # << >> THEN get_highest_card(trump_cards).player
        ELSE IF led_suit_cards # << >> THEN get_highest_card(led_suit_cards).player
        ELSE NoPlayer

\* an add_card that takes the led suit from every card it is given
add_card_led_last(trick, card, player, trump) ==
    LET played == Append(trick.cards_played, TrickCard(card, player))
        t1 == [trick EXCEPT !.cards_played = played,
                            !.trump_suit = IF trump # NoSuit THEN trump ELSE @,
                            !.led_suit = card.suit]
    IN  IF Len(played) = 4 THEN [t1 EXCEPT !.winner = determine_winner(t1)] ELSE t1

\* Trick.add_card, for a trick that holds fewer than 4 cards
add_card(trick, card, player, trump) ==
    LET played == Append(trick.cards_played, TrickCard(card, player))
        t1 == [trick EXCEPT !.cards_played = played,
                            !.trump_suit = IF trump # NoSuit THEN trump ELSE @,
                            !.led_suit = IF Len(played) = 1 THEN card.suit ELSE @]
    IN  IF Len(played) = 4 THEN [t1 EXCEPT !.winner = determine_winner(t1)] ELSE t1

\* Trick.get_cards
get_cards(trick) == [i \in DOMAIN trick.cards_played |-> trick.cards_played[i].card]

\* Trick.is_complete
trick_is_complete(trick) == Len(trick.cards_played) = 4

----------------------------------------------------------------------------
\* The state after BiddingRound.__init__ and Team.__init__.

InitBidding ==
    /\ bids = << >>
    /\ current_bid = 27
    /\ winning_bid = NoBid
    /\ winning_team = NoTeam
    /\ is_complete = FALSE
    /\ consecutive_passes = 0

InitTeams ==
    /\ team_bid = [t \in Teams |-> 0]
    /\ is_bidding_team = [t \in Teams |-> FALSE]

\* Player.__init__: no cards held, no tricks won
NoHands ==
    /\ hand = [p \in Players |-> << >>]
    /\ tricks_won = [p \in Players |-> << >>]

\* the round's deck has been dealt out, and no interactive bidding was begun
DeckDealt ==
    /\ deck_cards = << >>
    /\ shuffles = 0
    /\ bidding_history = << >>

\* no TrickManager has been made yet
NoTrickManager ==
    /\ DeckDealt
    /\ starts = 0
    /\ trump_suit = NoSuit
    /\ tricks = << >>
    /\ current_trick = NoTrick
    /\ current_player_index = 0

NoScores == [t \in Teams |-> -1]

\* Game56.__init__: no round scored, North deals first, the game is open
NoGame ==
    /\ game_scores = [t \in Teams |-> 0]
    /\ current_dealer_index = 0
    /\ game_complete = FALSE
    /\ game_winning_team = NoTeam

\* GameRound.__init__: nothing scored yet
NoScoring ==
    /\ team_points = [t \in Teams |-> 0]
    /\ round_complete = FALSE
    /\ round_winning_team = NoTeam
    /\ scores = NoScores
    /\ round_number = 1

----------------------------------------------------------------------------
\* Spec: the bidding engine called by any seat with any action, in any order.

Init ==
    /\ InitBidding
    /\ InitTeams
    /\ NoHands
    /\ NoTrickManager
    /\ NoScoring
    /\ NoGame
    /\ current_player = NoPlayer
    /\ pc = "engine"
    /\ call = NoCall

SubmitBid ==
    \E player \in Players, amount \in BidAmounts :
        /\ (Len(bids) < MaxBids \/ is_complete)
        /\ make_bid(player, BID, amount)
        /\ UNCHANGED <<teamVars, driverVars, handVars, trickVars, scoreVars,
                       starts, deckVars, gameVars, bidding_history>>

SubmitPass ==
    \E player \in Players :
        /\ (Len(bids) < MaxBids \/ is_complete)
        /\ make_bid(player, PASS, 0)
        /\ UNCHANGED <<teamVars, driverVars, handVars, trickVars, scoreVars,
                       starts, deckVars, gameVars, bidding_history>>

Next == SubmitBid \/ SubmitPass

Spec == Init /\ [][Next]_vars

----------------------------------------------------------------------------
\* SpecRotation: BiddingManager.conduct_bidding, the seats acting in rotation
\* from any starting seat; the hand-strength strategy is an outside decision.

InitRotation ==
    /\ InitBidding
    /\ InitTeams
    /\ NoHands
    /\ NoTrickManager
    /\ NoScoring
    /\ NoGame
    /\ current_player \in Players
    /\ pc = "bidding"
    /\ call = NoCall

\* one pass of the while loop (bidding.py:158-189)
BiddingTurn ==
    /\ pc = "bidding"
    /\ ~is_complete
    /\ Len(bids) < MaxTurns
    /\ \E should_bid \in BOOLEAN, bid_amount \in BidAmounts :
          IF should_bid /\ can_player_bid(current_player, bid_amount)
          THEN make_bid(current_player, BID, bid_amount)
          ELSE make_bid(current_player, PASS, 0)
    /\ current_player' = IF ~is_complete' THEN get_next_player(current_player)
                         ELSE current_player
    /\ UNCHANGED <<teamVars, pc, handVars, trickVars, scoreVars,
                   starts, deckVars, gameVars, bidding_history>>

\* the loop has ended (bidding.py:191-192)
BiddingDone ==
    /\ pc = "bidding"
    /\ is_complete
    /\ finalize_bidding
    /\ pc' = "done"
    /\ UNCHANGED <<bidVars, current_player, call, handVars, trickVars, scoreVars,
                   starts, deckVars, gameVars, bidding_history>>

NextRotation == BiddingTurn \/ BiddingDone

SpecRotation == InitRotation /\ [][NextRotation]_vars

----------------------------------------------------------------------------
\* TrickManager (trick.py).

\* TrickManager.get_current_player
get_current_player == current_player_index

\* TrickManager.get_next_player
trick_get_next_player == (current_player_index + 1) % Cardinality(Players)

\* TrickManager._is_valid_play
is_valid_play(card, player) ==
    IF ~InSeq(card, hand[player]) THEN FALSE
    ELSE IF current_trick = NoTrick \/ current_trick.cards_played = << >> THEN TRUE
    ELSE InSeq(card, get_valid_cards(hand[player], current_trick.led_suit, trump_suit))

\* a start_new_trick that leaves the turn where it was
start_new_trick_keep_turn(leading_player) ==
    /\ current_trick' = [Trick(Len(tricks) + 1, leading_player)
                            EXCEPT !.trump_suit = trump_suit]
    /\ call' = [op |-> "start_new_trick", player |-> leading_player]
    /\ UNCHANGED <<trump_suit, tricks, handVars, current_player_index>>

\* a start_new_trick that numbers the trick by the calls made so far
start_new_trick_by_starts(leading_player) ==
    /\ current_trick' = [Trick(starts + 1, leading_player)
                            EXCEPT !.trump_suit = trump_suit]
    /\ current_player_index' = leading_player
    /\ call' = [op |-> "start_new_trick", player |-> leading_player]
    /\ UNCHANGED <<trump_suit, tricks, handVars>>

\* TrickManager.start_new_trick
start_new_trick(leading_player) ==
    /\ current_trick' = [Trick(Len(tricks) + 1, leading_player)
                            EXCEPT !.trump_suit = trump_suit]
    /\ current_player_index' = leading_player
    /\ call' = [op |-> "start_new_trick", player |-> leading_player]
    /\ UNCHANGED <<trump_suit, tricks, handVars>>

\* what play_card answers: it raises ValueError, returns False or returns True
play_card_result(card, player) ==
    IF current_trick = NoTrick THEN "raise"
    ELSE IF player # get_current_player THEN "raise"
    ELSE IF ~is_valid_play(card, player) THEN "False"
    ELSE "True"

\* the record of a play_card call: the answer, and the card and the seat of
\* a play that was accepted
PlayCardCall(card, player, result) ==
    IF result = "True"
    THEN [op |-> "play_card", result |-> result, card |-> card, player |-> player]
    ELSE [op |-> "play_card", result |-> result]

\* a _complete_trick that leaves the turn with the next seat in rotation
complete_trick_keep_turn(trick) ==
    /\ tricks_won' = IF trick.winner # NoPlayer
                     THEN [tricks_won EXCEPT ![trick.winner] = Append(@, get_cards(trick))]
                     ELSE tricks_won
    /\ tricks' = Append(tricks, trick)
    /\ current_player_index' = (current_player_index + 1) % Cardinality(Players)
    /\ current_trick' = NoTrick

\* a _complete_trick that forgets the history
complete_trick_no_history(trick) ==
    /\ tricks_won' = IF trick.winner # NoPlayer
                     THEN [tricks_won EXCEPT ![trick.winner] = Append(@, get_cards(trick))]
                     ELSE tricks_won
    /\ tricks' = tricks
    /\ current_player_index' = IF trick.winner # NoPlayer THEN trick.winner
                               ELSE (current_player_index + 1) % Cardinality(Players)
    /\ current_trick' = NoTrick

\* TrickManager._complete_trick, for the trick that add_card has just completed
complete_trick(trick) ==
    /\ tricks_won' = IF trick.winner # NoPlayer
                     THEN [tricks_won EXCEPT ![trick.winner] = Append(@, get_cards(trick))]
                     ELSE tricks_won
    /\ tricks' = Append(tricks, trick)
    /\ current_player_index' = IF trick.winner # NoPlayer THEN trick.winner
                               ELSE (current_player_index + 1) % Cardinality(Players)
    /\ current_trick' = NoTrick

\* a play_card that awards the trick without its first card
play_card_drop_a_card(card, player) ==
    IF play_card_result(card, player) # "True"
    THEN /\ call' = PlayCardCall(card, player, play_card_result(card, player))
         /\ UNCHANGED <<trickVars, handVars>>
    ELSE LET trick == add_card(current_trick, card, player, trump_suit)
         IN  /\ hand' = [hand EXCEPT ![player] = RemoveFirst(@, card)]
             /\ call' = PlayCardCall(card, player, "True")
             /\ UNCHANGED trump_suit
             /\ IF trick_is_complete(trick)
                THEN /\ tricks_won' = [tricks_won EXCEPT ![trick.winner] =
                                           Append(@, Tail(get_cards(trick)))]
                     /\ tricks' = Append(tricks, trick)
                     /\ current_player_index' = trick.winner
                     /\ current_trick' = NoTrick
                ELSE /\ current_trick' = trick
                     /\ current_player_index' =
                            (current_player_index + 1) % Cardinality(Players)
                     /\ UNCHANGED <<tricks, tricks_won>>

\* a play_card that takes the card out of the hand before it validates it
play_card_remove_first(card, player) ==
    IF play_card_result(card, player) # "True"
    THEN /\ call' = PlayCardCall(card, player, play_card_result(card, player))
         /\ hand' = IF play_card_result(card, player) = "False" /\ InSeq(card, hand[player])
                    THEN [hand EXCEPT ![player] = RemoveFirst(@, card)]
                    ELSE hand
         /\ UNCHANGED <<trickVars, tricks_won>>
    ELSE LET trick == add_card(current_trick, card, player, trump_suit)
         IN  /\ hand' = [hand EXCEPT ![player] = RemoveFirst(@, card)]
             /\ call' = PlayCardCall(card, player, "True")
             /\ UNCHANGED trump_suit
             /\ IF trick_is_complete(trick)
                THEN complete_trick(trick)
                ELSE /\ current_trick' = trick
                     /\ current_player_index' =
                            (current_player_index + 1) % Cardinality(Players)
                     /\ UNCHANGED <<tricks, tricks_won>>

\* TrickManager.play_card with Player.play_card
play_card(card, player) ==
    IF play_card_result(card, player) # "True"
    THEN /\ call' = PlayCardCall(card, player, play_card_result(card, player))
         /\ UNCHANGED <<trickVars, handVars>>
    ELSE LET trick == add_card(current_trick, card, player, trump_suit)
         IN  /\ hand' = [hand EXCEPT ![player] = RemoveFirst(@, card)]
             /\ call' = PlayCardCall(card, player, "True")
             /\ UNCHANGED trump_suit
             /\ IF trick_is_complete(trick)
                THEN complete_trick(trick)
                ELSE /\ current_trick' = trick
                     /\ current_player_index' =
                            (current_player_index + 1) % Cardinality(Players)
                     /\ UNCHANGED <<tricks, tricks_won>>

\* TrickManager.is_round_complete: 12 tricks, one for each card of a hand
is_round_complete == Len(tricks) = HandSize

----------------------------------------------------------------------------
\* SpecPlay: a TrickManager made over freshly dealt hands, with start_new_trick
\* and play_card called by any seat with any card, in any order.

InitPlay ==
    /\ InitBidding
    /\ InitTeams
    /\ NoScoring
    /\ NoGame
    /\ \E deck \in shuffle(PlayDeck) : hand = deal_cards(deck, HandSize)
    /\ tricks_won = [p \in Players |-> << >>]
    \* TrickManager.__init__ keeps the trump_suit it is given, None included
    /\ trump_suit \in TrumpChoices \cup {NoSuit}
    /\ tricks = << >>
    /\ current_trick = NoTrick
    /\ current_player_index = 0
    /\ starts = 0
    /\ DeckDealt
    /\ current_player = NoPlayer
    /\ pc = "tricks"
    /\ call = NoCall

StartNewTrick ==
    \E leading_player \in Players :
        \* MaxStarts tricks are started, and one more on a finished round
        /\ starts < MaxStarts \/ (is_round_complete /\ current_trick = NoTrick)
        /\ start_new_trick(leading_player)
        /\ starts' = IF starts < MaxStarts THEN starts + 1 ELSE starts
        /\ UNCHANGED <<deckVars, gameVars, bidding_history>>
        /\ UNCHANGED <<bidVars, teamVars, driverVars, scoreVars>>

PlayCard ==
    \E player \in Players, card \in CardsOf(PlayDeck) :
        /\ play_card(card, player)
        /\ UNCHANGED <<bidVars, teamVars, driverVars, scoreVars,
                       starts, deckVars, gameVars, bidding_history>>

NextPlay == StartNewTrick \/ PlayCard

SpecPlay == InitPlay /\ [][NextPlay]_vars

----------------------------------------------------------------------------
\* GameRound.play_tricks (game.py): the loop that drives the TrickManager
\* through the tricks of a round. current_player holds its leading_player
\* and pc its position: "trick" at the top of the outer loop, CardPc[k] at
\* the k-th pass of the inner loop, "winner" after it, "done" past the loop
\* and "crashed" after trick.winner.name on a trick without a winner.

CardPc == <<"card1", "card2", "card3", "card4">>

\* the state when play_tricks enters its loop: the hands are dealt, the trump
\* suit is set and the seat after the dealer leads
InitRound ==
    /\ InitBidding
    /\ InitTeams
    /\ NoScoring
    /\ NoGame
    /\ \E deck \in shuffle(PlayDeck) : hand = deal_cards(deck, HandSize)
    /\ tricks_won = [p \in Players |-> << >>]
    /\ trump_suit \in TrumpChoices
    /\ tricks = << >>
    /\ current_trick = NoTrick
    /\ current_player_index = 0
    /\ starts = 0
    /\ DeckDealt
    /\ \E dealer \in Players : current_player = (dealer + 1) % Cardinality(Players)
    /\ pc = "trick"
    /\ call = NoCall

\* for trick_num in range(12): start_new_trick(leading_player); the scaled
\* deck gives HandSize tricks
RoundStartTrick ==
    /\ pc = "trick"
    /\ starts < HandSize
    /\ start_new_trick(current_player)
    /\ starts' = starts + 1
    /\ pc' = CardPc[1]
    /\ UNCHANGED <<bidVars, teamVars, current_player, scoreVars, deckVars, gameVars,
                   bidding_history>>

\* for card_num in range(4): the seat on turn plays one of its valid cards,
\* random.choice picking it, and is passed over when it has none
RoundPlayCard ==
    \E k \in 1 .. 4 :
        /\ pc = CardPc[k]
        /\ pc' = IF k < 4 THEN CardPc[k + 1] ELSE "winner"
        /\ LET led_suit == IF current_trick.cards_played # << >>
                           THEN current_trick.led_suit ELSE NoSuit
               valid_cards == get_valid_cards(hand[get_current_player], led_suit,
                                              trump_suit)
           IN  IF valid_cards # << >>
               THEN \E card_to_play \in CardsOf(valid_cards) :
                        play_card(card_to_play, get_current_player)
               ELSE /\ call' = [op |-> "pass_over"]
                    /\ UNCHANGED <<trickVars, handVars>>
        /\ UNCHANGED <<bidVars, teamVars, current_player, scoreVars, starts,
                       deckVars, gameVars, bidding_history>>

\* trick.winner.name is read, and leading_player = trick.winner
RoundTrickWinner ==
    /\ pc = "winner"
    /\ IF current_trick = NoTrick /\ tricks # << >>
       THEN /\ current_player' = tricks[Len(tricks)].winner
            /\ pc' = "trick"
       ELSE /\ pc' = "crashed"
            /\ UNCHANGED current_player
    /\ call' = [op |-> "trick_winner"]
    /\ UNCHANGED <<bidVars, teamVars, handVars, trickVars, scoreVars, starts,
                   deckVars, gameVars, bidding_history>>

\* self.round_complete = True
RoundDone ==
    /\ pc = "trick"
    /\ starts = HandSize
    /\ round_complete' = TRUE
    /\ pc' = "done"
    /\ call' = [op |-> "round_complete"]
    /\ UNCHANGED <<bidVars, teamVars, current_player, handVars, trickVars,
                   team_points, round_winning_team, scores, round_number, starts,
                   deckVars, gameVars, bidding_history>>

NextRound == RoundStartTrick \/ RoundPlayCard \/ RoundTrickWinner \/ RoundDone

SpecRound == InitRound /\ [][NextRound]_vars

\* play_tricks is one sequential loop: it takes its next step whenever it
\* has one
SpecRoundLive == SpecRound /\ WF_vars(NextRound)

----------------------------------------------------------------------------
\* SpecTrick: one Trick as start_new_trick makes it, East leading, to which
\* add_card gives any four cards of three suits, seat after seat.

TrickCards == {Card(suit, rank) : suit \in TrumpChoices, rank \in Ranks}

InitTrick ==
    /\ InitBidding
    /\ InitTeams
    /\ NoHands
    /\ NoScoring
    /\ NoGame
    /\ trump_suit \in TrumpChoices
    /\ tricks = << >>
    /\ current_trick = [Trick(1, 1) EXCEPT !.trump_suit = trump_suit]
    /\ current_player_index = 1
    /\ starts = 1
    /\ DeckDealt
    /\ current_player = NoPlayer
    /\ pc = "trick"
    /\ call = NoCall

\* Trick.add_card raises ValueError on a trick of 4 cards and changes nothing
AddCard ==
    \E card \in TrickCards :
        /\ Len(current_trick.cards_played) < 4
        /\ current_trick' = add_card(current_trick, card, current_player_index, trump_suit)
        /\ current_player_index' = (current_player_index + 1) % Cardinality(Players)
        /\ call' = [op |-> "add_card"]
        /\ UNCHANGED <<bidVars, teamVars, driverVars, handVars, scoreVars,
                       starts, deckVars, gameVars, bidding_history,
                       trump_suit, tricks>>

NextTrick == AddCard

SpecTrick == InitTrick /\ [][NextTrick]_vars

----------------------------------------------------------------------------
\* Round scoring (game.py, interactive_game.py).

ScoreCall(op, result) == [op |-> op, result |-> result]

\* the loop of game.py:127-131 keeps the last team it meets of each kind
LastBiddingTeam ==
    IF is_bidding_team[2] THEN 2 ELSE IF is_bidding_team[1] THEN 1 ELSE NoTeam
LastDefendingTeam ==
    IF ~is_bidding_team[2] THEN 2 ELSE IF ~is_bidding_team[1] THEN 1 ELSE NoTeam

\* a scorer that asks for more points than the bid
calculate_scores_strict(tp) ==
    LET bidding_team == LastBiddingTeam
        defending_team == LastDefendingTeam
    IN  IF ~round_complete \/ bidding_team = NoTeam \/ defending_team = NoTeam
        THEN /\ call' = ScoreCall("calculate_scores", "raise")
             /\ UNCHANGED <<scores, round_winning_team>>
        ELSE IF tp[bidding_team] > team_bid[bidding_team]
        THEN /\ scores' = [t \in Teams |-> IF t = bidding_team
                                           THEN team_bid[bidding_team]
                                           ELSE 56 - team_bid[bidding_team]]
             /\ round_winning_team' = bidding_team
             /\ call' = ScoreCall("calculate_scores", "scores")
        ELSE /\ scores' = [t \in Teams |-> IF t = bidding_team THEN 0 ELSE 56]
             /\ round_winning_team' = defending_team
             /\ call' = ScoreCall("calculate_scores", "scores")

\* a scorer that gives the defending team nothing when the bid is made
calculate_scores_no_share(tp) ==
    LET bidding_team == LastBiddingTeam
        defending_team == LastDefendingTeam
    IN  IF ~round_complete \/ bidding_team = NoTeam \/ defending_team = NoTeam
        THEN /\ call' = ScoreCall("calculate_scores", "raise")
             /\ UNCHANGED <<scores, round_winning_team>>
        ELSE IF tp[bidding_team] >= team_bid[bidding_team]
        THEN /\ scores' = [t \in Teams |-> IF t = bidding_team
                                           THEN team_bid[bidding_team] ELSE 0]
             /\ round_winning_team' = bidding_team
             /\ call' = ScoreCall("calculate_scores", "scores")
        ELSE /\ scores' = [t \in Teams |-> IF t = bidding_team THEN 0 ELSE 56]
             /\ round_winning_team' = defending_team
             /\ call' = ScoreCall("calculate_scores", "scores")

\* GameRound.calculate_scores; tp is what get_team_points returned
calculate_scores(tp) ==
    LET bidding_team == LastBiddingTeam
        defending_team == LastDefendingTeam
    IN  IF ~round_complete
        THEN /\ call' = ScoreCall("calculate_scores", "raise")
             /\ UNCHANGED <<scores, round_winning_team>>
        ELSE IF bidding_team = NoTeam \/ defending_team = NoTeam
        THEN /\ call' = ScoreCall("calculate_scores", "raise")
             /\ UNCHANGED <<scores, round_winning_team>>
        ELSE IF tp[bidding_team] >= team_bid[bidding_team]
        THEN /\ scores' = [t \in Teams |-> IF t = bidding_team
                                           THEN team_bid[bidding_team]
                                           ELSE 56 - team_bid[bidding_team]]
             /\ round_winning_team' = bidding_team
             /\ call' = ScoreCall("calculate_scores", "scores")
        ELSE /\ scores' = [t \in Teams |-> IF t = bidding_team THEN 0 ELSE 56]
             /\ round_winning_team' = defending_team
             /\ call' = ScoreCall("calculate_scores", "scores")

\* the first team of the list that is not the given one
FirstOtherTeam(team) ==
    IF 1 # team THEN 1 ELSE IF 2 # team THEN 2 ELSE NoTeam

\* InteractiveGameRound.calculate_scores; the round's bidding_round is the
\* BiddingRound once bidding is complete, and None before
interactive_calculate_scores(tp) ==
    IF ~is_complete \/ winning_bid = NoBid
    THEN /\ scores' = [t \in Teams |-> 0]
         /\ call' = ScoreCall("interactive_calculate_scores", "zeros")
         /\ UNCHANGED round_winning_team
    ELSE LET bidding_team == winning_team
             defending_team == FirstOtherTeam(bidding_team)
         IN  IF defending_team = NoTeam
             THEN /\ call' = ScoreCall("interactive_calculate_scores", "raise")
                  /\ UNCHANGED <<scores, round_winning_team>>
             ELSE IF tp[bidding_team] >= winning_bid.amount
             THEN /\ scores' = [t \in Teams |-> IF t = bidding_team
                                                THEN winning_bid.amount
                                                ELSE 56 - winning_bid.amount]
                  /\ round_winning_team' = bidding_team
                  /\ call' = ScoreCall("interactive_calculate_scores", "scores")
             ELSE /\ scores' = [t \in Teams |-> IF t = bidding_team THEN 0 ELSE 56]
                  /\ round_winning_team' = defending_team
                  /\ call' = ScoreCall("interactive_calculate_scores", "scores")

----------------------------------------------------------------------------
\* SpecScore: a round whose bidding was won by any seat at any amount of
\* 28..56 and finalized, whose twelve tricks are played, and in which the
\* bidding team took any number of the 56 points; either scorer is called.

InitScore ==
    /\ \E player \in Players, amount \in 28 .. 56 :
          /\ bids = <<Bid(player, BID, amount),
                      Bid(get_next_player(player), PASS, 0),
                      Bid(get_next_player(get_next_player(player)), PASS, 0),
                      Bid(get_next_player(get_next_player(get_next_player(player))),
                          PASS, 0)>>
          /\ current_bid = amount
          /\ winning_bid = Bid(player, BID, amount)
          /\ winning_team = get_player_team(player)
          /\ is_complete = TRUE
          /\ consecutive_passes = 3
          \* as finalize_bidding leaves the teams
          /\ team_bid = [t \in Teams |-> IF t = get_player_team(player) THEN amount ELSE 0]
          /\ is_bidding_team = [t \in Teams |-> t = get_player_team(player)]
          /\ current_player = get_next_player(get_next_player(get_next_player(player)))
          /\ \E p \in 0 .. 56 :
                team_points = [t \in Teams |-> IF t = get_player_team(player)
                                               THEN p ELSE 56 - p]
    /\ NoHands
    /\ NoTrickManager
    /\ round_complete = TRUE
    /\ round_winning_team = NoTeam
    /\ scores = NoScores
    /\ round_number = 1
    /\ NoGame
    /\ pc = "scoring"
    /\ call = NoCall

CalculateScores ==
    /\ pc = "scoring"
    /\ calculate_scores(team_points)
    /\ UNCHANGED <<bidVars, teamVars, driverVars, handVars, trickVars,
                   starts, deckVars, gameVars, bidding_history,
                   team_points, round_complete, round_number>>

InteractiveCalculateScores ==
    /\ pc = "scoring"
    /\ interactive_calculate_scores(team_points)
    /\ UNCHANGED <<bidVars, teamVars, driverVars, handVars, trickVars,
                   starts, deckVars, gameVars, bidding_history,
                   team_points, round_complete, round_number>>

NextScore == CalculateScores \/ InteractiveCalculateScores

SpecScore == InitScore /\ [][NextScore]_vars

----------------------------------------------------------------------------
\* SpecGame: the rounds of a game over the same players and teams, each round
\* a GameRound (or InteractiveGameRound) whose methods a caller may call in
\* any order. The cards are those of SpecPlay; here the trick points that
\* get_team_points returns are an outside input.

\* the points the first team may have taken of the 56
GamePoints == {0, 28, 56}

InitGame ==
    /\ InitBidding
    /\ InitTeams
    /\ NoHands
    /\ NoTrickManager
    /\ NoScoring
    /\ NoGame
    /\ current_player = NoPlayer
    /\ pc = "round"
    /\ call = NoCall

\* Game56.play_round makes the next GameRound and deals: the players are
\* reset, the teams are not
NewRound ==
    /\ pc # "bidding"
    /\ round_number < MaxRounds
    /\ round_number' = round_number + 1
    /\ bids' = << >>
    /\ current_bid' = 27
    /\ winning_bid' = NoBid
    /\ winning_team' = NoTeam
    /\ is_complete' = FALSE
    /\ consecutive_passes' = 0
    /\ trump_suit' = NoSuit
    /\ team_points' = [t \in Teams |-> 0]
    /\ round_complete' = FALSE
    /\ round_winning_team' = NoTeam
    /\ scores' = NoScores
    /\ current_player' = NoPlayer
    /\ pc' = "round"
    /\ call' = [op |-> "deal_cards"]
    /\ UNCHANGED <<teamVars, handVars, tricks, current_trick, current_player_index,
                   starts, deckVars, gameVars, bidding_history>>

\* GameRound.conduct_bidding enters BiddingManager.conduct_bidding with the
\* seat after the dealer
ConductBidding ==
    /\ pc = "round"
    /\ \E dealer \in Players : current_player' = (dealer + 1) % Cardinality(Players)
    /\ pc' = "bidding"
    /\ call' = [op |-> "conduct_bidding"]
    /\ UNCHANGED <<bidVars, teamVars, handVars, trickVars, scoreVars,
                   starts, deckVars, gameVars, bidding_history>>

\* BiddingRound.finalize_bidding called once more by the caller
FinalizeBidding ==
    /\ pc # "bidding"
    /\ finalize_bidding
    /\ call' = [op |-> "finalize_bidding"]
    /\ UNCHANGED <<bidVars, driverVars, handVars, trickVars, scoreVars,
                   starts, deckVars, gameVars, bidding_history>>

\* GameRound.set_trump_suit
SetTrumpSuit ==
    /\ pc # "bidding"
    /\ trump_suit = NoSuit
    /\ \E suit \in TrumpChoices : trump_suit' = suit
    /\ call' = [op |-> "set_trump_suit"]
    /\ UNCHANGED <<bidVars, teamVars, driverVars, handVars, scoreVars,
                   starts, deckVars, gameVars, bidding_history,
                   tricks, current_trick, current_player_index>>

\* GameRound.play_tricks, as far as the scorer sees it
PlayTricks ==
    /\ pc # "bidding"
    /\ ~round_complete
    /\ IF trump_suit = NoSuit
       THEN /\ call' = [op |-> "play_tricks", result |-> "raise"]
            /\ UNCHANGED <<team_points, round_complete>>
       ELSE /\ \E p \in GamePoints : team_points' = <<p, 56 - p>>
            /\ round_complete' = TRUE
            /\ call' = [op |-> "play_tricks", result |-> "None"]
    /\ UNCHANGED <<bidVars, teamVars, driverVars, handVars, trickVars,
                   starts, deckVars, gameVars, bidding_history,
                   round_winning_team, scores, round_number>>

GameCalculateScores ==
    /\ pc # "bidding"
    /\ calculate_scores(team_points)
    /\ UNCHANGED <<bidVars, teamVars, driverVars, handVars, trickVars,
                   starts, deckVars, gameVars, bidding_history,
                   team_points, round_complete, round_number>>

GameInteractiveCalculateScores ==
    /\ pc # "bidding"
    /\ interactive_calculate_scores(team_points)
    /\ UNCHANGED <<bidVars, teamVars, driverVars, handVars, trickVars,
                   starts, deckVars, gameVars, bidding_history,
                   team_points, round_complete, round_number>>

NextGame ==
    \/ NewRound
    \/ ConductBidding
    \/ BiddingTurn
    \/ BiddingDone
    \/ FinalizeBidding
    \/ SetTrumpSuit
    \/ PlayTricks
    \/ GameCalculateScores
    \/ GameInteractiveCalculateScores

SpecGame == InitGame /\ [][NextGame]_vars

----------------------------------------------------------------------------
\* Game56.play_game (game.py): play_round after play_round until the game
\* is complete. pc is the position in play_round: "play_game" at the top of
\* the while loop, "dealt" after deal_cards, "bidding" in the loop of
\* BiddingManager.conduct_bidding, "done" when it has returned, "tricks"
\* once the trump suit is set, "playing" inside play_tricks, "scoring"
\* after it, and "game_over" past the while loop. The bidding is the loop of
\* SpecRotation; of play_tricks the first start_new_trick and the points
\* the teams end with are kept.

\* Game56.__init__(target_score); 500 in the program, scaled to three rounds
target_score == 60

\* a dealer that is the seat before the current dealer
get_current_dealer_before == (current_dealer_index + 3) % Cardinality(Players)

\* Game56.get_current_dealer, as a seat
get_current_dealer == current_dealer_index

\* a check for game end that declares the team with the higher total
game_end_winner_highest(totals) ==
    IF totals[1] < target_score /\ totals[2] < target_score THEN NoTeam
    ELSE IF totals[2] > totals[1] THEN 2 ELSE 1

\* a check for game end that asks for more than the target
game_end_winner_above(totals) ==
    IF totals[1] > target_score THEN 1
    ELSE IF totals[2] > target_score THEN 2
    ELSE NoTeam

\* the check for game end (game.py:257-262): the first team of game_scores
\* that has reached the target wins
game_end_winner(totals) ==
    IF totals[1] >= target_score THEN 1
    ELSE IF totals[2] >= target_score THEN 2
    ELSE NoTeam

InitMatch ==
    /\ InitBidding
    /\ InitTeams
    /\ NoHands
    /\ NoTrickManager
    /\ NoScoring
    /\ NoGame
    /\ current_player = NoPlayer
    /\ pc = "play_game"
    /\ call = NoCall

\* while not game_complete: play_round makes a GameRound and deals; the
\* players are reset, the teams are not
MatchDeal ==
    /\ pc = "play_game"
    /\ ~game_complete
    /\ bids' = << >>
    /\ current_bid' = 27
    /\ winning_bid' = NoBid
    /\ winning_team' = NoTeam
    /\ is_complete' = FALSE
    /\ consecutive_passes' = 0
    /\ trump_suit' = NoSuit
    /\ current_trick' = NoTrick
    /\ team_points' = [t \in Teams |-> 0]
    /\ round_complete' = FALSE
    /\ round_winning_team' = NoTeam
    /\ scores' = NoScores
    /\ pc' = "dealt"
    /\ call' = [op |-> "deal_cards"]
    /\ UNCHANGED <<teamVars, current_player, handVars, tricks, current_player_index,
                   round_number, starts, deckVars, gameVars, bidding_history>>

\* GameRound.conduct_bidding: the seat after the dealer bids first
MatchConductBidding ==
    /\ pc = "dealt"
    /\ current_player' = (get_current_dealer + 1) % Cardinality(Players)
    /\ pc' = "bidding"
    /\ call' = [op |-> "conduct_bidding"]
    /\ UNCHANGED <<bidVars, teamVars, handVars, trickVars, scoreVars,
                   starts, deckVars, gameVars, bidding_history>>

\* conduct_bidding has returned: without a winning bid play_round starts
\* over with the same dealer, and else the winning bidder's best suit
\* becomes the trump suit
MatchSetTrump ==
    /\ pc = "done"
    /\ IF winning_bid = NoBid
       THEN /\ pc' = "play_game"
            /\ call' = [op |-> "redeal"]
            /\ UNCHANGED trump_suit
       ELSE /\ \E suit \in TrumpChoices : trump_suit' = suit
            /\ pc' = "tricks"
            /\ call' = [op |-> "set_trump_suit"]
    /\ UNCHANGED <<bidVars, teamVars, current_player, handVars, scoreVars,
                   starts, deckVars, gameVars, bidding_history,
                   tricks, current_trick, current_player_index>>

\* play_tricks: the seat after the dealer leads the first trick
MatchStartTricks ==
    /\ pc = "tricks"
    /\ start_new_trick((get_current_dealer + 1) % Cardinality(Players))
    /\ pc' = "playing"
    /\ UNCHANGED <<bidVars, teamVars, current_player, scoreVars,
                   starts, deckVars, gameVars, bidding_history>>

\* play_tricks: the tricks are played, the teams end with the 56 points
\* between them
MatchPlayTricks ==
    /\ pc = "playing"
    /\ \E p \in GamePoints : team_points' = <<p, 56 - p>>
    /\ round_complete' = TRUE
    /\ current_trick' = NoTrick
    /\ pc' = "scoring"
    /\ call' = [op |-> "play_tricks", result |-> "None"]
    /\ UNCHANGED <<bidVars, teamVars, current_player, handVars,
                   starts, deckVars, gameVars, bidding_history,
                   trump_suit, tricks, current_player_index,
                   round_winning_team, scores, round_number>>

\* the end of play_round: the round is scored, the scores are added to the
\* game scores, the dealer moves on and the game is checked for its end
MatchScore ==
    /\ pc = "scoring"
    /\ calculate_scores(team_points)
    /\ IF call'.result = "raise"
       THEN /\ pc' = "crashed"
            /\ UNCHANGED <<round_number, gameVars>>
       ELSE /\ game_scores' = [t \in Teams |-> game_scores[t] + scores'[t]]
            /\ round_number' = round_number + 1
            /\ current_dealer_index' = (current_dealer_index + 1) % Cardinality(Players)
            /\ game_winning_team' = IF game_end_winner(game_scores') # NoTeam
                                    THEN game_end_winner(game_scores')
                                    ELSE game_winning_team
            /\ game_complete' = IF game_end_winner(game_scores') # NoTeam
                                THEN TRUE ELSE game_complete
            /\ pc' = IF game_complete' THEN "game_over" ELSE "play_game"
    /\ UNCHANGED <<bidVars, teamVars, current_player, handVars, trickVars,
                   starts, deckVars, bidding_history,
                   team_points, round_complete>>

NextMatch ==
    \/ MatchDeal
    \/ MatchConductBidding
    \/ BiddingTurn
    \/ BiddingDone
    \/ MatchSetTrump
    \/ MatchStartTricks
    \/ MatchPlayTricks
    \/ MatchScore

SpecMatch == InitMatch /\ [][NextMatch]_vars

\* play_game is one sequential program: it takes its next step whenever it
\* has one
SpecMatchLive == SpecMatch /\ WF_vars(NextMatch)

----------------------------------------------------------------------------
\* The bid state of the teams (player.py, bidding.py): set_bid, clear_bid
\* and reset_for_new_round called on either team and finalize_bidding
\* called on the round, in any order, for a bidding round that ended
\* without a bid or was won by any seat.

\* the amounts a team's bid is set to: the valid bids
TeamBids == {amount \in BidAmounts : 28 <= amount /\ amount <= 56}

\* Team.set_bid
set_bid(team, bid) ==
    /\ team_bid' = [team_bid EXCEPT ![team] = bid]
    /\ is_bidding_team' = [is_bidding_team EXCEPT ![team] = TRUE]

\* Team.clear_bid
clear_bid(team) ==
    /\ team_bid' = [team_bid EXCEPT ![team] = 0]
    /\ is_bidding_team' = [is_bidding_team EXCEPT ![team] = FALSE]

\* Team.reset_for_new_round: Player.reset_for_new_round for both players,
\* then clear_bid
team_reset_for_new_round(team) ==
    /\ hand' = [p \in Players |-> IF InTeam(p, team) THEN << >> ELSE hand[p]]
    /\ tricks_won' = [p \in Players |-> IF InTeam(p, team) THEN << >> ELSE tricks_won[p]]
    /\ clear_bid(team)

InitTeam ==
    /\ \/ InitBidding
       \/ \E player \in Players, amount \in TeamBids :
             /\ bids = <<Bid(player, BID, amount),
                         Bid(get_next_player(player), PASS, 0),
                         Bid(get_next_player(get_next_player(player)), PASS, 0),
                         Bid(get_next_player(get_next_player(get_next_player(player))),
                             PASS, 0)>>
             /\ current_bid = amount
             /\ winning_bid = Bid(player, BID, amount)
             /\ winning_team = get_player_team(player)
             /\ is_complete = TRUE
             /\ consecutive_passes = 3
    /\ InitTeams
    /\ NoHands
    /\ NoTrickManager
    /\ NoScoring
    /\ NoGame
    /\ current_player = NoPlayer
    /\ pc = "team"
    /\ call = NoCall

TeamSetBid ==
    \E team \in Teams, bid \in TeamBids :
        /\ set_bid(team, bid)
        /\ call' = [op |-> "set_bid"]
        /\ UNCHANGED <<bidVars, driverVars, handVars, trickVars, scoreVars,
                       starts, deckVars, gameVars, bidding_history>>

TeamClearBid ==
    \E team \in Teams :
        /\ clear_bid(team)
        /\ call' = [op |-> "clear_bid"]
        /\ UNCHANGED <<bidVars, driverVars, handVars, trickVars, scoreVars,
                       starts, deckVars, gameVars, bidding_history>>

TeamReset ==
    \E team \in Teams :
        /\ team_reset_for_new_round(team)
        /\ call' = [op |-> "reset_for_new_round"]
        /\ UNCHANGED <<bidVars, driverVars, trickVars, scoreVars,
                       starts, deckVars, gameVars, bidding_history>>

TeamFinalizeBidding ==
    /\ finalize_bidding
    /\ call' = [op |-> "finalize_bidding"]
    /\ UNCHANGED <<bidVars, driverVars, handVars, trickVars, scoreVars,
                   starts, deckVars, gameVars, bidding_history>>

NextTeam == TeamSetBid \/ TeamClearBid \/ TeamReset \/ TeamFinalizeBidding

SpecTeam == InitTeam /\ [][NextTeam]_vars

----------------------------------------------------------------------------
\* The interactive bidding of InteractiveGameRound (interactive_game.py): the
\* web front end calls continue_ai_bidding and process_human_bid in any order.

\* InteractiveGame56.__init__: the human player sits South
human_player == 2

\* an entry of _bidding_history; a pass carries no amount
HistoryEntry(player, action, amount) ==
    [player |-> player, action |-> action, amount |-> amount]

\* continue_ai_bidding: the team of the bidder holds the winning bid
current_team_bidding ==
    /\ winning_bid # NoBid
    /\ InTeam(winning_bid.player, get_player_team(current_player))

\* what should_bid may answer for an AI seat: (False, 0), or True with an
\* amount of min_bid up to min_bid + 5 and at most 56, the hand and
\* random.random() deciding which
should_bid_answers(should_bid, bid_amount) ==
    IF should_bid
    THEN /\ ~current_team_bidding
         /\ get_minimum_bid <= 50
         /\ get_minimum_bid <= bid_amount
         /\ bid_amount <= Min(get_minimum_bid + 5, 56)
    ELSE bid_amount = 0

\* _get_current_bidding_state finalizes a round that is complete; the round
\* completes on a pass only, which leaves winning_bid and winning_team alone
get_current_bidding_state ==
    IF is_complete' THEN finalize_bidding ELSE UNCHANGED teamVars

\* the end of both handlers: the turn moves on while the round is open
move_to_next_player ==
    current_player' = IF ~is_complete' THEN get_next_player(current_player)
                      ELSE current_player

\* the state after conduct_interactive_bidding
InitInteractive ==
    /\ InitBidding
    /\ InitTeams
    /\ NoHands
    /\ NoTrickManager
    /\ NoScoring
    /\ NoGame
    /\ \E dealer \in Players : current_player = (dealer + 1) % Cardinality(Players)
    /\ pc = "interactive"
    /\ call = NoCall

ContinueAiBidding ==
    /\ IF is_complete \/ current_player = human_player
       THEN /\ UNCHANGED <<bidVars, current_player, bidding_history>>
            /\ get_current_bidding_state
            /\ call' = [op |-> "continue_ai_bidding"]
       ELSE /\ Len(bidding_history) < MaxTurns
            /\ \E should_bid \in BOOLEAN, bid_amount \in BidAmounts \cup {0} :
                  /\ should_bid_answers(should_bid, bid_amount)
                  /\ IF should_bid /\ can_player_bid(current_player, bid_amount)
                     THEN /\ make_bid(current_player, BID, bid_amount)
                          /\ bidding_history' = Append(bidding_history,
                                 HistoryEntry(current_player, BID, bid_amount))
                     ELSE /\ make_bid(current_player, PASS, 0)
                          /\ bidding_history' = Append(bidding_history,
                                 HistoryEntry(current_player, PASS, 0))
            /\ move_to_next_player
            /\ get_current_bidding_state
    /\ UNCHANGED <<pc, handVars, trickVars, scoreVars, starts, deckVars, gameVars>>

ProcessHumanBid ==
    /\ IF current_player # human_player
       THEN /\ UNCHANGED <<bidVars, teamVars, current_player, bidding_history>>
            /\ call' = [op |-> "process_human_bid", result |-> "error"]
       ELSE /\ Len(bidding_history) < MaxTurns
            /\ \E action \in {BID, PASS}, amount \in BidAmounts \cup {0} :
                  /\ action = PASS => amount = 0
                  /\ make_bid(human_player, action, amount)
                  /\ bidding_history' = Append(bidding_history,
                         HistoryEntry(human_player, action, amount))
            /\ move_to_next_player
            /\ get_current_bidding_state
    /\ UNCHANGED <<pc, handVars, trickVars, scoreVars, starts, deckVars, gameVars>>

NextInteractive == ContinueAiBidding \/ ProcessHumanBid

SpecInteractive == InitInteractive /\ [][NextInteractive]_vars

----------------------------------------------------------------------------
\* SpecDeal: the Deck of a GameRound, made full, then shuffled, dealt out to
\* the seats by deal_cards, dealt card by card, and reset, in any order.

\* the cards of a hand (game.py:44)
CardsPerHand == 12

InitDeal ==
    /\ InitBidding
    /\ InitTeams
    /\ NoHands
    /\ NoScoring
    /\ NoGame
    /\ starts = 0
    /\ trump_suit = NoSuit
    /\ tricks = << >>
    /\ current_trick = NoTrick
    /\ current_player_index = 0
    \* Deck.__init__
    /\ deck_cards = FullDeck
    /\ shuffles = 0
    /\ bidding_history = << >>
    /\ current_player = NoPlayer
    /\ pc = "deck"
    /\ call = NoCall

\* Deck.shuffle
Shuffle ==
    /\ shuffles < MaxShuffles
    /\ deck_cards' \in shuffle(deck_cards)
    /\ shuffles' = shuffles + 1
    /\ call' = [op |-> "shuffle"]
    /\ UNCHANGED <<bidVars, teamVars, driverVars, handVars, trickVars, scoreVars,
                   starts, bidding_history, gameVars>>

\* Deck.deal_card: None from an empty deck
DealCard ==
    /\ (deck_cards = << >> \/ Len(deck_cards) > Len(FullDeck) - MaxSingles)
    /\ IF deck_cards = << >>
       THEN /\ call' = [op |-> "deal_card", result |-> "None"]
            /\ UNCHANGED deck_cards
       ELSE /\ call' = [op |-> "deal_card", result |-> deal_card(deck_cards)]
            /\ deck_cards' = FirstOf(deck_cards, Len(deck_cards) - 1)
    /\ UNCHANGED <<bidVars, teamVars, driverVars, handVars, trickVars, scoreVars,
                   starts, shuffles, bidding_history, gameVars>>

\* GameRound.deal_cards: the deck is shuffled, every player is reset and
\* receives a hand
DealCards ==
    /\ shuffles < MaxShuffles
    /\ \E shuffled \in shuffle(deck_cards) :
          /\ hand' = deal_cards(shuffled, CardsPerHand)
          /\ deck_cards' = deck_after_deal(shuffled, CardsPerHand)
    /\ tricks_won' = [p \in Players |-> << >>]
    /\ shuffles' = shuffles + 1
    /\ call' = [op |-> "deal_cards"]
    /\ UNCHANGED <<bidVars, teamVars, driverVars, trickVars, scoreVars,
                   starts, bidding_history, gameVars>>

\* Deck.reset
Reset ==
    /\ deck_cards' = FullDeck
    /\ call' = [op |-> "reset"]
    /\ UNCHANGED <<bidVars, teamVars, driverVars, handVars, trickVars, scoreVars,
                   starts, shuffles, bidding_history, gameVars>>

NextDeal == Shuffle \/ DealCard \/ DealCards \/ Reset

SpecDeal == InitDeal /\ [][NextDeal]_vars

----------------------------------------------------------------------------
\* What the claims speak of, stated apart from the code.

\* the fixed partnerships: North and South, East and West
PartnershipOf(seat) == IF seat \in {0, 2} THEN 1 ELSE 2
OtherPartnership(team) == IF team = 1 THEN 2 ELSE 1

\* the seat k places after a seat in the rotation North, East, South, West
SeatAfter(seat, k) == (seat + k) % 4

\* the positions of the accepted bids in a log, and the passes at its end
BidPositions(log) == {i \in DOMAIN log : log[i].action = BID}
TrailingPasses(log) ==
    Cardinality({i \in DOMAIN log : \A j \in i .. Len(log) : log[j].action = PASS})
LastBidOf(log) ==
    log[CHOOSE i \in BidPositions(log) : \A j \in BidPositions(log) : j <= i]

\* a bid the rules allow in the current state
LegalBid(seat, amount) ==
    /\ ~is_complete
    /\ Max(28, current_bid + 1) <= amount
    /\ amount <= 56
    /\ PartnershipOf(seat) # winning_team

\* the trick order of the ranks, lowest first
TrickRankOrder == <<"QUEEN", "KING", "TEN", "ACE", "NINE", "JACK">>
TrickRank(rank) == CHOOSE i \in DOMAIN TrickRankOrder : TrickRankOrder[i] = rank

\* in a trick of four plays: the plays of a suit, the suit that decides the
\* trick, and the plays of that suit that no play of it outranks
PlaysOfSuit(trick, suit) ==
    {i \in DOMAIN trick.cards_played : trick.cards_played[i].card.suit = suit}
DecidingSuit(trick) ==
    IF PlaysOfSuit(trick, trick.trump_suit) # {} THEN trick.trump_suit
    ELSE trick.cards_played[1].card.suit
TopPlays(trick) ==
    LET D == PlaysOfSuit(trick, DecidingSuit(trick))
    IN  {i \in D : \A j \in D : TrickRank(trick.cards_played[j].card.rank)
                                    <= TrickRank(trick.cards_played[i].card.rank)}

----------------------------------------------------------------------------
\* C1: once a bid has been accepted, the round is complete exactly when three
\* passes follow the last accepted bid, never with fewer or more; the winner
\* is then the last accepted bid and its bidder's partnership.
C1_ThirdPassCloses ==
    BidPositions(bids) # {} =>
        /\ is_complete <=> TrailingPasses(bids) >= 3
        /\ is_complete =>
              /\ TrailingPasses(bids) = 3
              /\ winning_bid = LastBidOf(bids)
              /\ winning_team = PartnershipOf(LastBidOf(bids).player)

C1_Witness ==
    /\ is_complete
    /\ BidPositions(bids) # {}
    /\ TrailingPasses(bids) = 3

\* C2: when all four seats have passed and no bid was accepted, the round is
\* complete with no winner.
C2_FourPassesClose ==
    (/\ BidPositions(bids) = {}
     /\ {bids[i].player : i \in DOMAIN bids} = Players)
        => (is_complete /\ winning_bid = NoBid /\ winning_team = NoTeam)

\* C3: can_player_bid is true exactly for the legal bids; make_bid accepts a
\* bid exactly when it is legal, and then logs it, makes it the high bid of
\* the bidder and the bidder's partnership, and resets consecutive_passes.
C3_BidStep ==
    (call'.op = "make_bid" /\ call'.action = BID /\ call'.ok) =>
        LET seat == call'.player
            amount == call'.amount
        IN  /\ LegalBid(seat, amount)
            /\ bids' = Append(bids, [player |-> seat, action |-> BID, amount |-> amount])
            /\ current_bid' = amount
            /\ winning_bid' = [player |-> seat, action |-> BID, amount |-> amount]
            /\ winning_team' = PartnershipOf(seat)
            /\ consecutive_passes' = 0
            /\ is_complete' = is_complete

C3_LegalBidsAccepted ==
    /\ [](\A seat \in Players, amount \in 26 .. 58 :
              /\ can_player_bid(seat, amount) <=> LegalBid(seat, amount)
              /\ make_bid_result(seat, BID, amount) <=> LegalBid(seat, amount))
    /\ [][C3_BidStep]_vars

C3_Witness ==
    /\ call.op = "make_bid"
    /\ call.action = BID
    /\ call.ok
    /\ Len(bids) >= 3
    /\ consecutive_passes = 0

\* C4: a make_bid call that returns False changes nothing of the round.
C4_RejectionChangesNothing ==
    [][(call'.op = "make_bid" /\ ~call'.ok) => UNCHANGED bidVars]_vars

C4_Witness ==
    /\ call.op = "make_bid"
    /\ ~call.ok
    /\ call.action = BID
    /\ winning_bid # NoBid
    /\ ~is_complete

\* C5: every accepted bid is in 28..56, the accepted amounts strictly
\* increase along the log, no accepted bid comes from the partnership of the
\* accepted bid before it, and a completed round's winning amount is in 28..56.
C5_BidsRiseAndAlternate ==
    /\ \A i \in BidPositions(bids) : bids[i].amount \in 28 .. 56
    /\ \A i, j \in BidPositions(bids) :
          i < j => /\ bids[i].amount < bids[j].amount
                   /\ (\A k \in BidPositions(bids) : ~(i < k /\ k < j))
                         => PartnershipOf(bids[i].player) # PartnershipOf(bids[j].player)
    /\ is_complete => winning_bid.amount \in 28 .. 56

C5_Witness ==
    /\ Cardinality(BidPositions(bids)) >= 2
    /\ is_complete

\* C6: the scenario of seven actions by the seats A, B, C, D in rotation.
Scenario(A) ==
    <<Bid(A, BID, 28), Bid(SeatAfter(A, 1), PASS, 0), Bid(SeatAfter(A, 2), BID, 30),
      Bid(SeatAfter(A, 3), PASS, 0), Bid(A, PASS, 0), Bid(SeatAfter(A, 1), PASS, 0),
      Bid(SeatAfter(A, 2), PASS, 0)>>

\* the raise made by B instead of C
ScenarioRaisedByB(A) ==
    <<Bid(A, BID, 28), Bid(SeatAfter(A, 1), BID, 30), Bid(SeatAfter(A, 2), PASS, 0),
      Bid(SeatAfter(A, 3), PASS, 0), Bid(A, PASS, 0)>>

\* after every proper prefix of the script the round is open, the seat of the
\* next action is on turn and a bid that comes next is one the round accepts
Accepted(script) ==
    \A k \in 0 .. Len(script) - 1 :
        (bids = SubSeq(script, 1, k) /\ (k = 0 => current_player = script[1].player)) =>
            /\ ~is_complete
            /\ current_player = script[k + 1].player
            /\ script[k + 1].action = BID =>
                  can_player_bid(script[k + 1].player, script[k + 1].amount)

\* C6 as claimed: A bids 28, B passes, C bids 30, D, A, B and C pass; each
\* action is accepted, the bidding closes and C's partnership wins at 30.
C6_ScenarioAsClaimed ==
    \A A \in Players :
        /\ Accepted(Scenario(A))
        /\ bids = Scenario(A) =>
              /\ is_complete
              /\ winning_bid.amount = 30
              /\ winning_team = PartnershipOf(SeatAfter(A, 2))

\* C6 as amended: after A bids 28 and B passes, C's bid of 30 is not
\* accepted, C being A's partner; with the raise made by B (A bids 28, B bids
\* 30, C, D and A pass) each action is accepted, the bidding closes at the
\* third pass and B's partnership wins at 30.
C6_ScenarioAmended ==
    \A A \in Players :
        /\ bids = SubSeq(Scenario(A), 1, 2) =>
              /\ ~is_complete
              /\ current_player = SeatAfter(A, 2)
              /\ ~can_player_bid(SeatAfter(A, 2), 30)
        /\ Accepted(ScenarioRaisedByB(A))
        /\ bids = ScenarioRaisedByB(A) =>
              /\ is_complete
              /\ winning_bid = Bid(SeatAfter(A, 1), BID, 30)
              /\ winning_team = PartnershipOf(SeatAfter(A, 1))

C6_Witness ==
    /\ \E A \in Players : bids = ScenarioRaisedByB(A)
    /\ is_complete

\* C7: in a completed trick the winner played a trump of the highest trick
\* rank if any trump was played, and else a card of the led suit of the
\* highest trick rank; with trump Hearts, the plays Nine of Clubs, Queen of
\* Hearts, Jack of Clubs, Ace of Spades are won by the Queen of Hearts.
C7_WinnerByTrumpThenLed ==
    Len(current_trick.cards_played) = 4 =>
        /\ \E i \in TopPlays(current_trick) :
              current_trick.winner = current_trick.cards_played[i].player
        /\ (/\ trump_suit = "Hearts"
            /\ get_cards(current_trick) =
                  <<Card("Clubs", "NINE"), Card("Hearts", "QUEEN"),
                    Card("Clubs", "JACK"), Card("Spades", "ACE")>>)
              => current_trick.winner = current_trick.cards_played[2].player

C7_Witness ==
    /\ trump_suit = "Hearts"
    /\ get_cards(current_trick) =
          <<Card("Clubs", "NINE"), Card("Hearts", "QUEEN"),
            Card("Clubs", "JACK"), Card("Spades", "ACE")>>
    /\ current_trick.winner = 2

\* C8: when equal cards tie for the highest of the deciding suit, the seat
\* that played its copy first wins.
C8_FirstPlayedWinsTie ==
    (Len(current_trick.cards_played) = 4 /\ Cardinality(TopPlays(current_trick)) >= 2) =>
        LET first == CHOOSE i \in TopPlays(current_trick) :
                        \A j \in TopPlays(current_trick) : i <= j
        IN  current_trick.winner = current_trick.cards_played[first].player

C8_Witness ==
    /\ Len(current_trick.cards_played) = 4
    /\ TopPlays(current_trick) = {2, 4}
    /\ current_trick.winner = current_trick.cards_played[2].player

\* C9: once a round's tricks are all recorded, the points of the two teams
\* add up to the points of the deck that was dealt, which are 56 for the
\* deck of 48 cards.
C9_TeamPointsAddUp ==
    /\ Len(FullDeck) = 48
    /\ calculate_hand_points(FullDeck) = 56
    /\ Len(tricks) = HandSize =>
          get_team_points[1] + get_team_points[2] = calculate_hand_points(PlayDeck)

C9_Witness ==
    /\ Len(tricks) = HandSize
    /\ get_team_points[1] > 0
    /\ get_team_points[2] > 0

\* C10: either scorer gives the bidding partnership its bid and the defending
\* one 56 less the bid when the bidding partnership took at least its bid,
\* and else 0 and 56; the round is won by the bidding partnership in the
\* first case and by the defending one in the second.
C10_RoundScores ==
    call.op \in {"calculate_scores", "interactive_calculate_scores"} =>
        LET bidding == PartnershipOf(winning_bid.player)
            defending == OtherPartnership(bidding)
            bid == winning_bid.amount
        IN  /\ call.result = "scores"
            /\ IF team_points[bidding] >= bid
               THEN /\ scores[bidding] = bid
                    /\ scores[defending] = 56 - bid
                    /\ round_winning_team = bidding
               ELSE /\ scores[bidding] = 0
                    /\ scores[defending] = 56
                    /\ round_winning_team = defending

C10_Witness ==
    /\ call.op = "calculate_scores"
    /\ team_points[winning_team] = winning_bid.amount
    /\ scores[winning_team] = winning_bid.amount
    /\ round_winning_team = winning_team

----------------------------------------------------------------------------
\* the step is a call of a round scorer
ScorerStep == call'.op \in {"calculate_scores", "interactive_calculate_scores"}

\* C11: a scorer called on a round that has no winning bid raises an error
\* and gives no scores, in the first round and in later ones, for
\* GameRound.calculate_scores and InteractiveGameRound.calculate_scores.
C11_NoBidNoScores ==
    [][(ScorerStep /\ winning_bid = NoBid) =>
          (call'.result = "raise" /\ scores' = scores)]_vars

----------------------------------------------------------------------------
\* What the trick claims speak of, stated apart from the code.

\* the cards a seat holds, and how many copies of a card a list holds
HandCards(seat) == {hand[seat][i] : i \in DOMAIN hand[seat]}
Copies(cards, card) == Cardinality({i \in DOMAIN cards : cards[i] = card})

\* a trick is open once start_new_trick has made it and until its 4th card
TrickOpen == current_trick # NoTrick
CardsInTrick == IF TrickOpen THEN Len(current_trick.cards_played) ELSE 0

\* the legal plays of a seat: all it holds when it leads or holds no card of
\* the led suit, and else what it holds of the led suit
LegalPlays(seat) ==
    IF CardsInTrick = 0 THEN HandCards(seat)
    ELSE LET led == current_trick.cards_played[1].card.suit
             follow == {card \in HandCards(seat) : card.suit = led}
         IN  IF follow # {} THEN follow ELSE HandCards(seat)

\* the step is a play_card call that was accepted
AcceptedPlay == call'.op = "play_card" /\ call'.result = "True"

\* C12: play_card raises or returns False when no trick is open, when it is
\* not the seat's turn, when the seat does not hold the card and when the
\* card is not a legal play; a play_card that raises or returns False leaves
\* the hands, the open trick, the history, the won piles and the turn as
\* they were.
C12_RejectedPlayChangesNothing ==
    /\ [](\A seat \in Players, card \in CardsOf(PlayDeck) :
             (\/ ~TrickOpen
              \/ seat # current_player_index
              \/ card \notin HandCards(seat)
              \/ card \notin LegalPlays(seat))
                => play_card_result(card, seat) \in {"raise", "False"})
    /\ [][(call'.op = "play_card" /\ call'.result # "True") =>
             UNCHANGED <<hand, current_trick, tricks, tricks_won, current_player_index>>]_vars

C12_Witness ==
    /\ call.op = "play_card"
    /\ call.result = "False"
    /\ CardsInTrick \in 1 .. 3
    /\ LegalPlays(current_player_index) # HandCards(current_player_index)

\* C13: get_valid_cards gives all of the hand to the seat that leads, the
\* cards of the led suit to a later seat that holds one, and all of the hand
\* to a later seat that holds none; play_card accepts a card from the seat on
\* turn exactly when the card is one of these.
C13_LegalPlays ==
    /\ [](\A seat \in Players :
             /\ CardsOf(get_valid_cards(hand[seat],
                                        IF CardsInTrick = 0 THEN NoSuit
                                        ELSE current_trick.led_suit,
                                        trump_suit)) = LegalPlays(seat)
             /\ (TrickOpen /\ seat = current_player_index) =>
                   \A card \in CardsOf(PlayDeck) :
                       play_card_result(card, seat) = "True" <=> card \in LegalPlays(seat))
    /\ [][AcceptedPlay =>
             /\ call'.player = current_player_index
             /\ call'.card \in LegalPlays(call'.player)]_vars

C13_Witness ==
    /\ call.op = "play_card"
    /\ call.result = "True"
    /\ CardsInTrick \in 2 .. 3
    /\ call.card.suit = current_trick.led_suit
    /\ \E card \in HandCards(call.player) : card.suit # current_trick.led_suit

\* C14: an accepted play_card of the 1st, 2nd or 3rd card of a trick takes
\* one copy of the card out of the hand of the seat, puts (card, seat) at the
\* end of the open trick, gives the turn to the next seat in rotation, and
\* leaves the other hands, the won piles, the history and the trump alone.
C14_PlayStep ==
    (AcceptedPlay /\ CardsInTrick < 3) =>
        LET card == call'.card
            seat == call'.player
        IN  /\ Len(hand'[seat]) = Len(hand[seat]) - 1
            /\ \A c \in CardsOf(PlayDeck) :
                  Copies(hand'[seat], c) =
                      Copies(hand[seat], c) - (IF c = card THEN 1 ELSE 0)
            /\ \A other \in Players \ {seat} : hand'[other] = hand[other]
            /\ current_trick'.cards_played =
                  Append(current_trick.cards_played, [card |-> card, player |-> seat])
            /\ current_trick'.trick_number = current_trick.trick_number
            /\ current_trick'.leading_player = current_trick.leading_player
            /\ current_player_index' = SeatAfter(seat, 1)
            /\ UNCHANGED <<tricks_won, tricks, trump_suit>>

C14_PlayOneCard == [][C14_PlayStep]_vars

C14_Witness ==
    /\ call.op = "play_card"
    /\ call.result = "True"
    /\ CardsInTrick \in 1 .. 3
    /\ call.card \in HandCards(call.player)
    /\ current_player_index = SeatAfter(call.player, 1)

\* C15: the accepted play of the 4th card of a trick resolves the winner in
\* the same step, closes the trick and gives the turn to the winner; while no
\* trick is open every play_card is rejected, and only start_new_trick opens
\* one.
C15_FourthStep ==
    (AcceptedPlay /\ CardsInTrick = 3) =>
        LET trick == tricks'[Len(tricks')]
        IN  /\ current_trick' = NoTrick
            /\ Len(tricks') = Len(tricks) + 1
            /\ Len(trick.cards_played) = 4
            /\ trick.winner \in {trick.cards_played[i].player : i \in 1 .. 4}
            /\ current_player_index' = trick.winner

C15_FourthCardCloses ==
    /\ [](~TrickOpen => \A seat \in Players, card \in CardsOf(PlayDeck) :
                            play_card_result(card, seat) # "True")
    /\ [][C15_FourthStep]_vars
    /\ [][(~TrickOpen /\ current_trick' # NoTrick) => call'.op = "start_new_trick"]_vars

C15_Witness ==
    /\ call.op = "play_card"
    /\ call.result = "True"
    /\ ~TrickOpen
    /\ tricks # << >>
    /\ current_player_index = tricks[Len(tricks)].winner
    /\ current_player_index # SeatAfter(call.player, 1)

\* C16: a start_new_trick called while the open trick holds 1 to 3 cards
\* leaves the open trick, the hands and the turn as they were.
C16_StartOnOpenTrickRejected ==
    [][(call'.op = "start_new_trick" /\ CardsInTrick \in 1 .. 3) =>
          UNCHANGED <<current_trick, hand, current_player_index>>]_vars

\* C17: with no trump suit supplied, start_new_trick opens no trick and
\* play_card accepts no card, and neither changes the hands, the open trick,
\* the history, the won piles or the turn.
C17_NoTrumpRejected ==
    [][(trump_suit = NoSuit /\ call'.op \in {"start_new_trick", "play_card"}) =>
          /\ UNCHANGED <<hand, current_trick, tricks, tricks_won, current_player_index>>
          /\ call'.op = "play_card" => call'.result # "True"]_vars

\* C18: the step that completes a trick puts the 4 cards of the trick on the
\* won pile of its winner and on no other pile, and the trick at the end of
\* the history; the won piles hold as many tricks of 4 cards as the history.
PileEntries(p) == Len(tricks_won[p])

C18_CompletionStep ==
    (AcceptedPlay /\ CardsInTrick = 3) =>
        LET played == Append(current_trick.cards_played,
                             [card |-> call'.card, player |-> call'.player])
            trick == tricks'[Len(tricks')]
        IN  /\ Len(tricks') = Len(tricks) + 1
            /\ SubSeq(tricks', 1, Len(tricks)) = tricks
            /\ trick.cards_played = played
            /\ tricks_won' = [tricks_won EXCEPT ![trick.winner] =
                                 Append(@, [i \in 1 .. 4 |-> played[i].card])]

C18_TrickGoesToWinner ==
    /\ [](/\ PileEntries(0) + PileEntries(1) + PileEntries(2) + PileEntries(3) = Len(tricks)
          /\ \A p \in Players : \A i \in DOMAIN tricks_won[p] : Len(tricks_won[p][i]) = 4)
    /\ [][C18_CompletionStep]_vars
    /\ [][(~(AcceptedPlay /\ CardsInTrick = 3)) => UNCHANGED <<tricks, tricks_won>>]_vars

C18_Witness ==
    /\ Len(tricks) = 2
    /\ \E p, q \in Players : p # q /\ PileEntries(p) = 1 /\ PileEntries(q) = 1

\* the step is a call of finalize_bidding, by conduct_bidding or by the caller
FinalizeStep == call'.op = "finalize_bidding" \/ (pc = "bidding" /\ pc' = "done")

\* what finalize_bidding is to leave: the winning amount and the flag with
\* the partnership of the winning bid, 0 and no flag with the other
Finalized ==
    /\ team_bid = [t \in Teams |-> IF t = PartnershipOf(winning_bid.player)
                                   THEN winning_bid.amount ELSE 0]
    /\ is_bidding_team = [t \in Teams |-> t = PartnershipOf(winning_bid.player)]

\* C19: with a winning bid, after the first call of finalize_bidding and after
\* every further one the winning partnership has the winning amount as its
\* bid and is the bidding team, and the other has bid 0 and is not; with no
\* winning bid a call changes no partnership's bid state.
C19_FinalizeIdempotent ==
    /\ []((winning_bid # NoBid /\ (pc = "done" \/ call.op = "finalize_bidding"))
             => Finalized)
    /\ [][FinalizeStep => IF winning_bid # NoBid THEN Finalized'
                          ELSE UNCHANGED teamVars]_vars

C19_Witness ==
    /\ call.op = "finalize_bidding"
    /\ pc = "done"
    /\ round_number = 2
    /\ winning_bid # NoBid
    /\ Finalized

\* C20: make_bid accepts an action only from the seat on turn, so every
\* action of the log comes from the seat after the seat of the action
\* before it, and no seat has two actions in a row.
C20_OnlySeatOnTurnActs ==
    \A i \in 1 .. Len(bids) - 1 : bids[i + 1].player = SeatAfter(bids[i].player, 1)

\* how many copies of a card the four hands hold together
CopiesInHands(hands, card) ==
    Copies(hands[0], card) + Copies(hands[1], card)
        + Copies(hands[2], card) + Copies(hands[3], card)

\* the 24 pairs of a suit and a rank
AllCards == {[suit |-> suit, rank |-> rank] :
                suit \in {"Hearts", "Diamonds", "Clubs", "Spades"},
                rank \in {"JACK", "NINE", "ACE", "TEN", "KING", "QUEEN"}}

\* C21: a Deck just made or just reset holds 48 cards, two of each of the 24
\* pairs of a suit and a rank, worth Jack 3, Nine 2, Ace 1, Ten 1, King 0,
\* Queen 0 and 56 together.
C21_FreshDeck ==
    call.op \in {"none", "reset"} =>
        /\ Len(deck_cards) = 48
        /\ Cardinality(AllCards) = 24
        /\ \A card \in AllCards : Copies(deck_cards, card) = 2
        /\ <<points("JACK"), points("NINE"), points("ACE"), points("TEN"),
             points("KING"), points("QUEEN")>> = <<3, 2, 1, 1, 0, 0>>
        /\ calculate_hand_points(deck_cards) = 56

C21_Witness ==
    /\ call.op = "reset"
    /\ shuffles >= 1
    /\ \E seat \in Players : hand[seat] # << >>
    /\ Len(deck_cards) = 48

\* the step is a deal_cards on a deck that holds all of its 48 cards
DealOfFullDeck == call'.op = "deal_cards" /\ Len(deck_cards) = 48

\* C22 as claimed: after deal_cards every seat holds 12 cards, the deck is
\* empty and no hand holds two cards of the same suit and rank.
C22_DealAsClaimed ==
    [][DealOfFullDeck =>
          /\ \A seat \in Players :
                /\ Len(hand'[seat]) = 12
                /\ \A card \in AllCards : Copies(hand'[seat], card) <= 1
          /\ deck_cards' = << >>]_vars

\* C22 as amended: after deal_cards on the full deck every seat holds 12
\* cards, the deck is empty and the four hands together hold every pair of a
\* suit and a rank exactly twice; one hand may hold both copies of a pair.
C22_DealAmended ==
    [][DealOfFullDeck =>
          /\ \A seat \in Players : Len(hand'[seat]) = 12
          /\ \A card \in AllCards : CopiesInHands(hand', card) = 2
          /\ deck_cards' = << >>]_vars

C22_Witness ==
    /\ call.op = "deal_cards"
    /\ deck_cards = << >>
    /\ \A seat \in Players : Len(hand[seat]) = 12
    /\ \E seat \in Players, card \in AllCards : Copies(hand[seat], card) = 2

\* C23: the step that starts a round (deal_cards) leaves every hand and every
\* won pile without a card of the round before, and both partnerships with
\* bid 0 and is_bidding_team false.
C23_RoundStartsClean ==
    [][call'.op = "deal_cards" =>
          /\ \A seat \in Players : tricks_won'[seat] = << >>
          /\ \A t \in Teams : team_bid'[t] = 0 /\ ~is_bidding_team'[t]]_vars

\* how many copies of a card the won piles of a seat hold
CopiesInPiles(seat, card) ==
    Cardinality({ij \in (DOMAIN tricks_won[seat]) \X (1 .. 4) :
                    /\ ij[2] \in DOMAIN tricks_won[seat][ij[1]]
                    /\ tricks_won[seat][ij[1]][ij[2]] = card})

\* how many copies of a card the deck, the hands, the open trick and the won
\* piles hold together
CopiesInPlay(card) ==
    Copies(deck_cards, card) + CopiesInHands(hand, card)
        + (IF TrickOpen THEN Copies(get_cards(current_trick), card) ELSE 0)
        + CopiesInPiles(0, card) + CopiesInPiles(1, card)
        + CopiesInPiles(2, card) + CopiesInPiles(3, card)

\* C24: under any sequence of start_new_trick and play_card calls the deck,
\* the four hands, the open trick and the four won piles together hold every
\* card of the dealt deck as often as the deck holds it: no card is lost and
\* no card is duplicated.
C24_CardsOnlyMove ==
    \A card \in CardsOf(PlayDeck) : CopiesInPlay(card) = Copies(PlayDeck, card)

\* C25: the leading seat of every trick of the history after the first is
\* the winner of the trick before it.
C25_WinnerLeadsNext ==
    \A n \in 1 .. Len(tricks) - 1 : tricks[n + 1].leading_player = tricks[n].winner

\* a step of the trick engine as C26 has it
C26_Step ==
    /\ call'.op = "start_new_trick" => current_trick'.trick_number = Len(tricks) + 1
    /\ is_round_complete => is_round_complete'

\* C26: a new trick gets the number Len(tricks) + 1, the tricks of the
\* history are numbered 1, 2, ... in order, the history never holds more
\* tricks than a seat was dealt cards, and is_round_complete, once true,
\* stays true.
C26_TricksNumbered ==
    /\ [](/\ \A i \in DOMAIN tricks : tricks[i].trick_number = i
          /\ Len(tricks) <= HandSize
          /\ is_round_complete <=> Len(tricks) = HandSize)
    /\ [][C26_Step]_vars

\* a trick was started on a finished round
C26_Witness ==
    /\ is_round_complete
    /\ call.op = "start_new_trick"
    /\ current_trick.trick_number = HandSize + 1

\* the seats that played a card of a trick
SeatsOf(trick) == {trick.cards_played[i].player : i \in DOMAIN trick.cards_played}

\* the led suit of a trick is the suit of its first card
LedByFirstCard(trick) ==
    trick.cards_played # << >> => trick.led_suit = trick.cards_played[1].card.suit

\* C27: under every sequence of accepted plays the led suit of a trick is
\* the suit of its first card, so the winner search of a completed trick
\* never ends without a winner, and the winner of every completed trick is
\* one of the four seats that played in it.
C27_WinnerAlwaysFound ==
    /\ TrickOpen => LedByFirstCard(current_trick)
    /\ \A n \in DOMAIN tricks :
          /\ LedByFirstCard(tricks[n])
          /\ determine_winner(tricks[n]) # NoPlayer
          /\ tricks[n].winner = determine_winner(tricks[n])
          /\ tricks[n].winner \in SeatsOf(tricks[n])
          /\ Cardinality(SeatsOf(tricks[n])) = 4

\* a trick without a trump suit was completed with a card off the led suit
C27_Witness ==
    /\ tricks # << >>
    /\ tricks[1].trump_suit = NoSuit
    /\ \E i \in 2 .. 4 : tricks[1].cards_played[i].card.suit # tricks[1].led_suit

\* a step of the bidding engine as C28 has it
C28_Step ==
    /\ (call'.op = "make_bid" /\ call'.action = PASS /\ call'.ok) =>
          /\ ~is_complete
          /\ consecutive_passes' = consecutive_passes + 1
          /\ UNCHANGED <<current_bid, winning_bid, winning_team>>
    /\ (call'.op = "make_bid" /\ is_complete) => (~call'.ok /\ UNCHANGED bidVars)

\* C28: make_bid accepts a pass of every seat exactly while the round is not
\* complete, an accepted pass adds one to consecutive_passes and leaves
\* current_bid, winning_bid and winning_team as they were, and once the round
\* is complete every bid and every pass returns False.
C28_PassWhileOpen ==
    /\ [](/\ \A player \in Players : make_bid_result(player, PASS, 0) <=> ~is_complete
          /\ is_complete => \A player \in Players, amount \in BidAmounts :
                               ~make_bid_result(player, BID, amount))
    /\ [][C28_Step]_vars

\* a pass was turned down after the round was completed by three passes
C28_Witness ==
    /\ is_complete
    /\ consecutive_passes = 3
    /\ call.op = "make_bid" /\ call.action = PASS /\ ~call.ok

\* a step of the interactive bidding as C29 has it
C29_Step ==
    (call'.op = "make_bid" /\ ~call'.ok) => UNCHANGED <<current_player, bidding_history>>

\* C29: a bid of the human seat that the engine turns down leaves the turn
\* with the human seat and the bidding history as it was, so the bidding
\* history always lists the actions of the engine's bid log, one by one.
C29_RejectedHumanBid ==
    /\ [](bidding_history =
             [i \in DOMAIN bids |->
                 HistoryEntry(bids[i].player, bids[i].action, bids[i].amount)])
    /\ [][C29_Step]_vars

\* the rotation North, East, South, West, North, seat by seat
Rotation == [seat \in Players |->
                CASE seat = 0 -> 1
                  [] seat = 1 -> 2
                  [] seat = 2 -> 3
                  [] seat = 3 -> 0]

\* a step of the trick engine as C30 has it: a play that leaves the trick
\* open passes the turn to the next seat of the rotation
C30_Step ==
    (AcceptedPlay /\ current_trick' # NoTrick) =>
        current_player_index' = Rotation[current_player_index]

\* C30: get_next_player of the bidding and the turn advance of the trick
\* engine go North, East, South, West and from West back to North, and the
\* next seat taken four times is the seat it began with.
C30_FixedRotation ==
    /\ [](/\ \A seat \in Players :
                /\ get_next_player(seat) = Rotation[seat]
                /\ get_next_player(get_next_player(get_next_player(
                       get_next_player(seat)))) = seat
          /\ current_player_index \in Players
          /\ trick_get_next_player = Rotation[current_player_index])
    /\ [][C30_Step]_vars

\* West has played into a trick that stays open, and North is on turn
C30_Witness ==
    /\ call.op = "play_card" /\ call.result = "True" /\ call.player = 3
    /\ TrickOpen
    /\ current_player_index = 0

\* C31: a complete round has a winner; a winning bid is the last bid of the
\* log, current_bid is its amount and winning_team the partnership of its
\* seat; a round without an accepted bid has current_bid 27 and neither a
\* winning bid nor a winning team.
C31_WinnerIsLastBid ==
    /\ is_complete => (winning_bid # NoBid /\ winning_team # NoTeam)
    /\ winning_bid # NoBid =>
          /\ BidPositions(bids) # {}
          /\ winning_bid = LastBidOf(bids)
          /\ current_bid = winning_bid.amount
          /\ winning_team = PartnershipOf(winning_bid.player)
    /\ BidPositions(bids) = {} =>
          (current_bid = 27 /\ winning_bid = NoBid /\ winning_team = NoTeam)

\* a round was completed whose winning bid outbid an earlier bid
C31_Witness ==
    /\ is_complete
    /\ Cardinality(BidPositions(bids)) = 2
    /\ winning_bid.amount = 30

\* C32: consecutive_passes is the number of passes at the end of the log;
\* passes before the first bid do not complete the round, and a bid
\* accepted after them sets the count to 0.
C32_PassCount ==
    /\ consecutive_passes = TrailingPasses(bids)
    /\ BidPositions(bids) = {} => ~is_complete
    /\ (bids # << >> /\ bids[Len(bids)].action = BID) => consecutive_passes = 0

\* four passes were made, and then a bid was accepted
C32_Witness ==
    /\ Len(bids) = 5
    /\ \A i \in 1 .. 4 : bids[i].action = PASS
    /\ bids[5].action = BID
    /\ consecutive_passes = 0
    /\ ~is_complete

\* C33: after a bid of 56 no amount is a valid bid and no seat can bid, the
\* round stays open until three passes have followed, and the complete
\* round is won at 56 by the partnership of the seat that bid 56.
C33_NothingAbove56 ==
    current_bid = 56 =>
        /\ \A amount \in 0 .. 60 : ~is_valid_bid(amount)
        /\ \A seat \in Players, amount \in BidAmounts :
              ~can_player_bid(seat, amount) /\ ~make_bid_result(seat, BID, amount)
        /\ is_complete <=> consecutive_passes = 3
        /\ is_complete =>
              /\ winning_bid.amount = 56
              /\ winning_team = PartnershipOf(winning_bid.player)
              /\ winning_bid = LastBidOf(bids)

\* a round was completed by three passes after a bid of 56
C33_Witness ==
    /\ is_complete
    /\ current_bid = 56
    /\ consecutive_passes = 3

\* the plays of a trick were made by the seats that follow its leader in
\* rotation, the leader first
PlayedInRotation(trick) ==
    \A i \in DOMAIN trick.cards_played :
        trick.cards_played[i].player = SeatAfter(trick.leading_player, i - 1)

\* C34: the k cards of an open trick were played by the k seats from the
\* leader on in rotation, in that order, and the seat on turn is the next
\* one; every completed trick holds exactly one card of each of the four
\* seats.
C34_PlaysFollowLeader ==
    /\ TrickOpen =>
          /\ CardsInTrick \in 0 .. 3
          /\ PlayedInRotation(current_trick)
          /\ current_player_index = SeatAfter(current_trick.leading_player, CardsInTrick)
    /\ \A n \in DOMAIN tricks :
          /\ Len(tricks[n].cards_played) = 4
          /\ PlayedInRotation(tricks[n])
          /\ \A seat \in Players :
                Cardinality({i \in 1 .. 4 : tricks[n].cards_played[i].player = seat}) = 1

\* South led, three cards have been played and East is on turn
C34_Witness ==
    /\ TrickOpen
    /\ current_trick.leading_player = 2
    /\ CardsInTrick = 3
    /\ current_player_index = 1

\* the cards the four hands hold together
CardsInHands ==
    Len(hand[0]) + Len(hand[1]) + Len(hand[2]) + Len(hand[3])

\* the plays accepted so far: four for every recorded trick and the cards
\* of the open trick
AcceptedPlays == 4 * Len(tricks) + CardsInTrick

\* play_tricks has run through: every trick is recorded and the hands are
\* empty
RoundPlayedOut ==
    /\ pc = "done"
    /\ round_complete
    /\ Len(tricks) = HandSize
    /\ AcceptedPlays = 4 * HandSize
    /\ CardsInHands = 0

\* C35: in play_tricks, from a deal of HandSize cards a seat (12 in the
\* program) with the trump set, the seat on turn of an open trick always
\* holds a card it may play, the hands are of equal size whenever no trick
\* is open, every accepted play takes one card out of the hands, the loop
\* never fails on a trick without a winner, and it ends with HandSize
\* recorded tricks after 4 * HandSize accepted plays and with empty hands.
C35_RoundPlaysOut ==
    /\ [](/\ TrickOpen => LegalPlays(current_player_index) # {}
          /\ TrickOpen =>
                get_valid_cards(hand[current_player_index],
                                IF CardsInTrick = 0 THEN NoSuit
                                ELSE current_trick.led_suit, trump_suit) # << >>
          /\ ~TrickOpen => \A seat \in Players : Len(hand[seat]) = HandSize - Len(tricks)
          /\ AcceptedPlays + CardsInHands = 4 * HandSize
          /\ pc # "crashed"
          /\ pc = "done" => RoundPlayedOut)
    /\ <>RoundPlayedOut

\* the loop has ended after a trick in which a seat could not follow suit
C35_Witness ==
    /\ RoundPlayedOut
    /\ \E n \in DOMAIN tricks, i \in 2 .. 4 :
          tricks[n].cards_played[i].card.suit # tricks[n].led_suit

\* the rounds play_round has scored: len(self.rounds)
ScoredRounds == round_number - 1

\* the step scores a round
ScoringStep == call'.op = "calculate_scores" /\ call'.result = "scores"

\* a step of play_game as C36 has it
C36_Step ==
    /\ \A t \in Teams : game_scores'[t] >= game_scores[t]
    /\ ScoringStep =>
          /\ scores'[1] + scores'[2] = 56
          /\ \A t \in Teams : scores'[t] >= 0
          /\ \A t \in Teams : game_scores'[t] = game_scores[t] + scores'[t]
          /\ round_number' = round_number + 1

\* C36: every scored round gives the two partnerships 56 points between
\* them, so after n scored rounds the game scores add up to 56 * n, and no
\* game score ever goes down.
C36_FiftySixPerRound ==
    /\ [](/\ game_scores[1] + game_scores[2] = 56 * ScoredRounds
          /\ pc # "crashed")
    /\ [][C36_Step]_vars

\* two rounds are scored, and the scores differ
C36_Witness ==
    /\ ScoredRounds = 2
    /\ call.op = "calculate_scores"
    /\ game_scores[1] # game_scores[2]

\* the round by which the game is complete: ceil(target_score / 28)
LastRound == (target_score + 27) \div 28

\* C37: play_game ends when the bidding of every round ends: the game is
\* complete after at most ceil(target_score / 28) scored rounds,
\* game_complete is true exactly when a game score has reached the target,
\* and it is never set back to false.
C37_GameEnds ==
    /\ [](/\ ScoredRounds <= LastRound
          /\ game_complete <=> \E t \in Teams : game_scores[t] >= target_score
          /\ game_complete <=> pc = "game_over")
    /\ [][game_complete => game_complete']_vars
    /\ ([]<>(pc # "bidding")) => <>game_complete

\* the game was completed by its last possible round
C37_Witness ==
    /\ game_complete
    /\ ScoredRounds = LastRound

\* C38: the declared winner of a complete game has reached the target, and
\* when both teams have reached it the winner is the first team of the
\* list, North-South, also when East-West has more.
C38_FirstTeamWins ==
    /\ ~game_complete => game_winning_team = NoTeam
    /\ game_complete =>
          /\ game_winning_team # NoTeam
          /\ game_scores[game_winning_team] >= target_score
          /\ (\A t \in Teams : game_scores[t] >= target_score) => game_winning_team = 1

\* both teams have reached the target, East-West with more, and North-South
\* is the winner
C38_Witness ==
    /\ game_complete
    /\ game_scores[1] >= target_score
    /\ game_scores[2] > game_scores[1]
    /\ game_winning_team = 1

\* a step of play_game as C39 has it
C39_Step ==
    /\ IF ScoringStep
       THEN current_dealer_index' = Rotation[current_dealer_index]
       ELSE UNCHANGED current_dealer_index
    /\ call'.op = "conduct_bidding" => current_player' = Rotation[current_dealer_index]
    /\ call'.op = "start_new_trick" =>
          /\ current_trick'.leading_player = Rotation[current_dealer_index]
          /\ current_player_index' = Rotation[current_dealer_index]

\* C39: the dealer moves on by one seat with every scored round and with
\* no other step of play_game, a new deal without a scored round included;
\* the first bidder of a round and the leader of its first trick are the
\* seat after the dealer, whichever seat won the bidding.
C39_DealerRotates ==
    /\ [](/\ current_dealer_index = ScoredRounds % 4
          /\ (pc \in {"bidding", "done", "tricks", "playing", "scoring"} /\ bids # << >>)
                => bids[1].player = Rotation[current_dealer_index]
          /\ pc = "playing" =>
                current_trick.leading_player = Rotation[current_dealer_index])
    /\ [][C39_Step]_vars

\* in the second round the first trick is led by the seat after the dealer,
\* which did not win the bidding
C39_Witness ==
    /\ pc = "playing"
    /\ current_dealer_index = 1
    /\ current_trick.leading_player = 2
    /\ winning_bid.player = 0

\* a step of the teams as C40 has it: finalize_bidding on a round with a
\* winner leaves the winning team alone as bidding team, with a valid bid
C40_Step ==
    (call'.op = "finalize_bidding" /\ winning_bid # NoBid /\ winning_team # NoTeam) =>
        /\ Cardinality({t \in Teams : is_bidding_team'[t]}) = 1
        /\ is_bidding_team'[winning_team]
        /\ team_bid'[winning_team] \in 28 .. 56

====
